---- MODULE Spec2Model ----
(***************************************************************************)
(* Verification model of the document-to-graph scripts:                    *)
(*   - merge_extracted_data (Result Merger),                               *)
(*   - extract_entities_relationships / process_chunk (Extraction Worker), *)
(*   - process_document_to_graph (pipeline driver, sequential/parallel),   *)
(*   - execute_resolution_plan (Duplicate Resolution Engine),              *)
(*   - create_resolution_plan and the workflows that execute a plan,       *)
(*   - prefilter_/identify_potential_duplicate_entity_types,               *)
(*   - build_graph (Graph Writer).                                         *)
(* Each component has its own specification; the variables of the other    *)
(* components stay at their idle values.                                   *)
(***************************************************************************)
EXTENDS Integers, Sequences, FiniteSets, TLC

VARIABLES
    \* ---- Result Merger ----
    data_list,      \* argument of merge_extracted_data: list of per-chunk dicts
    merged_data,    \* value returned by merge_extracted_data (NotReturned before)
    mpc,            \* "ready" | "merged"
    \* ---- Extraction Worker: process_chunk / extract_entities_relationships ----
    caller,         \* "process_chunk" | "direct" (extract called on its own)
    max_retries,    \* process_chunk(max_retries=...)
    max_attempts,   \* extract_entities_relationships(max_attempts=...)
    cpc,            \* control position of the worker
    retry_count,    \* process_chunk.retry_count
    attempt,        \* extract_entities_relationships: loop variable
    llm_calls,      \* chain.invoke submissions of the current extraction call
    extract_calls,  \* extraction calls made by process_chunk
    outcomes,       \* per-attempt LLM outcomes of the current extraction call
    ex_result,      \* value returned by the current extraction call
    extract_returns,\* values returned by the extraction calls so far
    chunk_result,   \* value returned by process_chunk
    \* ---- Duplicate Resolution Engine: execute_resolution_plan ----
    xpc,            \* control position inside execute_resolution_plan
    all_groups,     \* resolution_plan["groups"]: the group_id of each group
    single,         \* group_idx is not None
    group_idx,      \* the group_idx argument (read only when single)
    groups,         \* the local list groups: group_ids selected for execution
    plans,          \* plan entries iterated so far, with the steps iterated so far
    plan_exhausted, \* the for-loop over the plan entries found the list at its end
    validation_passed,
    merge_successful,
    post_validation_passed,
    group_result,   \* the group_result dict of the plan entry being executed
    execution_results, \* the execution report
    queries,        \* graph.query calls made through execute_cypher_query
    prompts,        \* prompts answered so far, and whether the answer was a yes
    last_answer,    \* the text last read from input()
    ret,            \* return value of execute_resolution_plan
    \* ---- Pipeline driver: process_document_to_graph ----
    ppc,            \* control position of the driver thread
    parallel,       \* the parallel argument
    max_workers,    \* the max_workers argument
    pipe_input,     \* "unset" | "connect_error" | "cache" | "document"
    chunks,         \* len(chunks); chunk index i of the code is i+1 here
    futures,        \* state of each submitted future
    returned,       \* what process_chunk returned for each chunk
    callback,       \* position of each future's update_progress callback
    tracker_lock,   \* holder of ProgressTracker.lock
    extraction_step_lock, \* holder of the global extraction_step_lock
    active_chunks,  \* keys of ProgressTracker.active_chunks
    results,        \* the results slots of parallel mode
    all_extracted_data,
    remaining_futures,
    completed_count,
    timed_out,      \* the 24 hour global timeout was taken
    build_calls,    \* calls of build_graph
    pipe_error,     \* exception caught at line 1014, "" if none
    verbose_extraction, \* the global set from --verbose-extraction
    extraction_steps,   \* the chunks that have an entry in the chunk-status map
    overdue,        \* the chunks executing for longer than the hang threshold
    last_check,     \* what the last check_for_hangs saw and returned
    last_access,    \* the last read or write of extraction_steps
    \* ---- Duplicate resolution workflow: main / interactive_duplicate_resolution ----
    wpc,            \* control position of the workflow
    path,           \* "interactive" | "load_plan" | "analyze_labels" | "entity_type"
    flag_execute,   \* --execute
    flag_backup,    \* --backup
    flag_dry_run,   \* --dry-run
    llm_output,     \* what the LLM answered to the planning prompt / the plan file
    resolution_plan,\* the plan in hand (created or loaded)
    backup_decision,\* "none" | "flag" | "yes" | "no"
    backup_result,  \* "none" | "ok" | "failed"
    proceed_answer, \* text typed at "Backup failed. Proceed anyway?", "none" if not asked
    next_group,     \* interactive: index of the next group offered for execution
    exec_calls,     \* arguments of the calls of execute_resolution_plan
    \* ---- Duplicate type detection: identify_potential_duplicate_entity_types ----
    dpc,            \* control position of the detection
    node_labels,    \* graph_stats["node_labels"]: the labels of the graph
    llm_answer,     \* what the LLM answered to the analysis prompt
    rule_based_duplicates, \* the groups of prefilter_duplicate_entity_types
    llm_duplicates, \* the groups parsed from the LLM answer
    all_duplicates, \* the list returned (NotReturned before)
    \* ---- Graph Writer: build_graph ----
    bpc,            \* control position of the writer
    clear_existing, \* build_graph(clear_existing=...)
    graph_delta,    \* argument extracted_data of build_graph
    item_idx,       \* items of the current loop already handled
    graph_queries,  \* the calls graph.query(...) made so far
    graph_store,    \* the nodes and relationships of the Neo4j graph
    write_run,      \* 1 in the first call of build_graph, 2 in a repeated call
    store_after_first, \* the graph as the first call left it
    \* ---- ensure_items_in_resolution_plan ----
    ipc,              \* "start" before the call, "done" after it
    duplicate_groups, \* argument duplicate_groups
    duplicate_type,   \* argument duplicate_type
    plan_before,      \* resolution_plan["groups"] as passed in
    plan_after,       \* resolution_plan["groups"] as returned
    \* ---- LLM invocations of the worker pool ----
    pool_workers,     \* max_workers of the ThreadPoolExecutor
    pool_queue,       \* chunks submitted to the pool and not started yet
    pool_threads,     \* what each thread of the pool is doing
    abandoned         \* chain.invoke calls still running after their timeout

mergeVars == <<data_list, merged_data, mpc>>

chunkVars == <<caller, max_retries, max_attempts, cpc, retry_count, attempt,
               llm_calls, extract_calls, outcomes, ex_result, extract_returns,
               chunk_result>>

execVars == <<xpc, all_groups, single, group_idx, groups, plans, plan_exhausted,
              validation_passed,
              merge_successful, post_validation_passed, group_result,
              execution_results, queries, prompts, last_answer, ret>>

pipeVars == <<ppc, parallel, max_workers, pipe_input, chunks, futures, returned,
              callback, tracker_lock, extraction_step_lock, active_chunks, results,
              all_extracted_data, remaining_futures, completed_count, timed_out,
              build_calls, pipe_error, verbose_extraction, extraction_steps,
              overdue, last_check, last_access>>

\* the chunk-status map and what the hang check needs
hangVars == <<verbose_extraction, extraction_steps, overdue, last_check, last_access>>

flowVars == <<wpc, path, flag_execute, flag_backup, flag_dry_run, llm_output,
              resolution_plan, backup_decision, backup_result, proceed_answer,
              next_group, exec_calls>>

detectVars == <<dpc, node_labels, llm_answer, rule_based_duplicates,
                llm_duplicates, all_duplicates>>

writeVars == <<bpc, clear_existing, graph_delta, item_idx, graph_queries,
               graph_store, write_run, store_after_first>>

itemsVars == <<ipc, duplicate_groups, duplicate_type, plan_before, plan_after>>

poolVars == <<pool_workers, pool_queue, pool_threads, abandoned>>

vars == <<mergeVars, chunkVars, execVars, pipeVars, flowVars, detectVars, writeVars,
          itemsVars, poolVars>>

\* the variables each component leaves alone
notMergeVars == <<chunkVars, execVars, pipeVars, flowVars, detectVars, writeVars, itemsVars, poolVars>>
notChunkVars == <<mergeVars, execVars, pipeVars, flowVars, detectVars, writeVars, itemsVars, poolVars>>
notExecVars == <<mergeVars, chunkVars, pipeVars, flowVars, detectVars, writeVars, itemsVars, poolVars>>
notPipeVars == <<mergeVars, chunkVars, execVars, flowVars, detectVars, writeVars, itemsVars, poolVars>>
notFlowVars == <<mergeVars, chunkVars, execVars, pipeVars, detectVars, writeVars, itemsVars, poolVars>>
notDetectVars == <<mergeVars, chunkVars, execVars, pipeVars, flowVars, writeVars, itemsVars, poolVars>>
notWriteVars == <<mergeVars, chunkVars, execVars, pipeVars, flowVars, detectVars, itemsVars, poolVars>>
notItemsVars == <<mergeVars, chunkVars, execVars, pipeVars, flowVars, detectVars, writeVars, poolVars>>
notPoolVars == <<mergeVars, chunkVars, execVars, pipeVars, flowVars, detectVars, writeVars, itemsVars>>

(***************************************************************************)
(* Bounds of the model.                                                    *)
(***************************************************************************)
MaxChunks == 2      \* most chunks of a document; longest data_list merged
MaxWorkers == 2     \* largest max_workers given to the pipeline
MaxItems == 4       \* entities + relationships in one data_list
MaxRetries == 3     \* largest max_retries given to process_chunk
MaxAttempts == 3    \* largest max_attempts given to a direct extraction call
MaxPlanSize == 5    \* most plan entries plus steps of one resolution plan
MaxPlanGroups == 2  \* most groups, and most plan entries, of an LLM-made plan

(***************************************************************************)
(* Small helpers on sequences.                                             *)
(***************************************************************************)
Range(s) == {s[i] : i \in DOMAIN s}

RECURSIVE Concat(_)
Concat(ss) == IF ss = <<>> THEN <<>> ELSE Head(ss) \o Concat(Tail(ss))

(***************************************************************************)
(* Values shared by the components, and the idle state of each component.  *)
(***************************************************************************)
\* merge_extracted_data has not returned yet
NotReturned == [returned |-> FALSE]

\* JSON values as the code handles them: a list, a non-list (an int or
\* null, on which len() raises TypeError), or a missing key.
List(items) == [kind |-> "list", items |-> items]
NonList == [kind |-> "int", items |-> <<>>]
Missing == [kind |-> "missing", items |-> <<>>]

\* dict.get(key, []) on a value of the dict
Get(v) == IF v.kind = "missing" THEN List(<<>>) ELSE v

\* the empty result {"entities": [], "relationships": []}
EmptyResult == [entities |-> List(<<>>), relationships |-> List(<<>>)]

\* return values of process_chunk
Pending == [kind |-> "pending", data |-> EmptyResult]
PyNone == [kind |-> "none", data |-> EmptyResult]
Some(d) == [kind |-> "data", data |-> d]

MergeIdle == /\ data_list = <<>>
             /\ merged_data = NotReturned
             /\ mpc = "idle"

ChunkIdle ==
    /\ caller = "none"
    /\ max_retries = 0
    /\ max_attempts = 0
    /\ cpc = "idle"
    /\ retry_count = 0
    /\ attempt = 0
    /\ llm_calls = 0
    /\ extract_calls = 0
    /\ outcomes = <<>>
    /\ ex_result = EmptyResult
    /\ extract_returns = <<>>
    /\ chunk_result = Pending

\* group_result before any plan entry is executed
NoGroupResult ==
    [ group_id |-> "", status |-> "none", details |-> <<>>,
      pre_validation_results |-> <<>>, operation_results |-> <<>>,
      post_validation_results |-> <<>> ]

\* the report before execute_resolution_plan builds it
NoReport ==
    [ total_groups |-> 0, successful_groups |-> 0, failed_groups |-> 0,
      skipped_groups |-> 0, group_results |-> <<>> ]

ExecIdle ==
    /\ xpc = "idle"
    /\ all_groups = <<>>
    /\ single = FALSE
    /\ group_idx = 0
    /\ groups = <<>>
    /\ plans = <<>>
    /\ plan_exhausted = FALSE
    /\ validation_passed = TRUE
    /\ merge_successful = TRUE
    /\ post_validation_passed = TRUE
    /\ group_result = NoGroupResult
    /\ execution_results = NoReport
    /\ queries = <<>>
    /\ prompts = <<>>
    /\ last_answer = ""
    /\ ret = "none"

(***************************************************************************)
(* Result Merger: merge_extracted_data.                                    *)
(***************************************************************************)
PipeIdle ==
    /\ ppc = "idle"
    /\ parallel = FALSE
    /\ max_workers = 0
    /\ pipe_input = "unset"
    /\ chunks = 0
    /\ futures = <<>>
    /\ returned = <<>>
    /\ callback = <<>>
    /\ tracker_lock = "none"
    /\ extraction_step_lock = "none"
    /\ active_chunks = {}
    /\ results = <<>>
    /\ all_extracted_data = <<>>
    /\ remaining_futures = {}
    /\ completed_count = 0
    /\ timed_out = FALSE
    /\ build_calls = 0
    /\ pipe_error = ""
    /\ verbose_extraction = FALSE
    /\ extraction_steps = {}
    /\ overdue = {}
    /\ last_check = [overdue |-> {}, reported |-> {}]
    /\ last_access = [thread |-> "none", op |-> "none", locked |-> TRUE]

\* return {"groups": [], "resolution_plan": []}
EmptyPlan == [groups |-> <<>>, resolution_plan |-> <<>>]

FlowIdle ==
    /\ wpc = "idle"
    /\ path = "none"
    /\ flag_execute = FALSE
    /\ flag_backup = FALSE
    /\ flag_dry_run = FALSE
    /\ llm_output = [kind |-> "none", plan |-> EmptyPlan]
    /\ resolution_plan = EmptyPlan
    /\ backup_decision = "none"
    /\ backup_result = "none"
    /\ proceed_answer = "none"
    /\ next_group = 0
    /\ exec_calls = <<>>

\* the detection has not been called
DetectIdle ==
    /\ dpc = "idle"
    /\ node_labels = <<>>
    /\ llm_answer = [kind |-> "none", groups |-> <<>>]
    /\ rule_based_duplicates = <<>>
    /\ llm_duplicates = <<>>
    /\ all_duplicates = NotReturned

\* the writer has not been called
WriteIdle ==
    /\ bpc = "idle"
    /\ clear_existing = FALSE
    /\ graph_delta = [entities |-> <<>>, relationships |-> <<>>]
    /\ item_idx = 0
    /\ graph_queries = <<>>
    /\ graph_store = [nodes |-> <<>>, rels |-> <<>>]
    /\ write_run = 1
    /\ store_after_first = [nodes |-> <<>>, rels |-> <<>>]

\* ensure_items_in_resolution_plan has not been called
ItemsIdle ==
    /\ ipc = "idle"
    /\ duplicate_groups = <<>>
    /\ duplicate_type = "entity_type"
    /\ plan_before = <<>>
    /\ plan_after = <<>>

\* no worker pool exists
PoolIdle ==
    /\ pool_workers = 1
    /\ pool_queue = 0
    /\ pool_threads = <<>>
    /\ abandoned = 0

\* Entities and relationships an LLM may emit.  Two copies of entity "a"
\* differ in their name; ids and types may contain the '-' character.
EntityPool ==
    { [id |-> "a",   name |-> "Alpha"],
      [id |-> "a",   name |-> "ALPHA"],
      [id |-> "a-b", name |-> "Beta"] }

RelationshipPool ==
    { [source |-> "a-b", type |-> "c",   target |-> "a", weight |-> 1],
      [source |-> "a",   type |-> "b-c", target |-> "a", weight |-> 1],
      [source |-> "a",   type |-> "b-c", target |-> "a", weight |-> 2] }

\* One per-chunk dict with e entities and r relationships.
ChunkDicts(e, r) ==
    { [entities |-> es, relationships |-> rs] :
        es \in [1..e -> EntityPool], rs \in [1..r -> RelationshipPool] }

\* number of entities and relationships held by a list of per-chunk dicts
RECURSIVE ItemCount(_)
ItemCount(dl) ==
    IF dl = <<>> THEN 0
    ELSE Len(Head(dl).entities) + Len(Head(dl).relationships) + ItemCount(Tail(dl))

\* mutant of KeepEntity: the id check is dropped, every copy is appended
KeepEntity_NoIdCheck(entity, entity_ids) == TRUE

\* line 435: an entity is kept when its id has not been seen yet
KeepEntity(entity, entity_ids) == entity.id \notin entity_ids

\* lines 433-437: first loop of merge_extracted_data
RECURSIVE MergeEntities(_, _, _)
MergeEntities(ents, out, entity_ids) ==
    IF ents = <<>> THEN out
    ELSE LET entity == Head(ents) IN
         IF KeepEntity(entity, entity_ids)
         THEN MergeEntities(Tail(ents), Append(out, entity), entity_ids \cup {entity.id})
         ELSE MergeEntities(Tail(ents), out, entity_ids)

\* line 450: rel_key = f"{source}-{rel_type}-{target}"
rel_key(relationship) ==
    relationship.source \o "-" \o relationship.type \o "-" \o relationship.target

\* lines 443-454: second loop of merge_extracted_data
RECURSIVE MergeRelationships(_, _, _)
MergeRelationships(rels, out, processed_relationships) ==
    IF rels = <<>> THEN out
    ELSE LET relationship == Head(rels) IN
         IF rel_key(relationship) \notin processed_relationships
         THEN MergeRelationships(Tail(rels), Append(out, relationship),
                                 processed_relationships \cup {rel_key(relationship)})
         ELSE MergeRelationships(Tail(rels), out, processed_relationships)

\* the entities / relationships of all chunks in list order
AllEntities(dl) == Concat([i \in DOMAIN dl |-> dl[i].entities])
AllRelationships(dl) == Concat([i \in DOMAIN dl |-> dl[i].relationships])

merge_extracted_data(dl) ==
    [ returned      |-> TRUE,
      entities      |-> MergeEntities(AllEntities(dl), <<>>, {}),
      relationships |-> MergeRelationships(AllRelationships(dl), <<>>, {}) ]

(***************************************************************************)
(* Extraction Worker: extract_entities_relationships and process_chunk.    *)
(***************************************************************************)
\* str.find(ch): index of the first occurrence (0-based), -1 when absent
Find(text, ch) ==
    IF \E i \in DOMAIN text : text[i] = ch
    THEN (CHOOSE i \in DOMAIN text :
             text[i] = ch /\ \A j \in DOMAIN text : text[j] = ch => i <= j) - 1
    ELSE -1

\* str.rfind(ch): index of the last occurrence (0-based), -1 when absent
RFind(text, ch) ==
    IF \E i \in DOMAIN text : text[i] = ch
    THEN (CHOOSE i \in DOMAIN text :
             text[i] = ch /\ \A j \in DOMAIN text : text[j] = ch => j <= i) - 1
    ELSE -1

\* text[a:b] for 0 <= a
Slice(text, a, b) ==
    IF b <= a THEN <<>>
    ELSE SubSeq(text, a + 1, IF b < Len(text) THEN b ELSE Len(text))

\* text.replace(c1 + c2, c2): drops every c1 that is directly followed by c2
RECURSIVE ReplacePair(_, _, _)
ReplacePair(text, c1, c2) ==
    IF Len(text) < 2 THEN text
    ELSE IF text[1] = c1 /\ text[2] = c2
         THEN <<c2>> \o ReplacePair(Tail(Tail(text)), c1, c2)
         ELSE <<text[1]>> \o ReplacePair(Tail(text), c1, c2)

\* line 286: fixed_json.replace(",]", "]").replace(",}", "}")
FixTrailingCommas(json_str) == ReplacePair(ReplacePair(json_str, ",", "]"), ",", "}")

\* Texts are sequences of tokens: "{", "}", ",", "x" (prose / junk) and the
\* members "e" ("entities": [one entity]), "r" ("relationships": [one
\* relationship]), "E" ("entities": null), "R" ("relationships": null).
JsonMembers ==
    { <<>>, <<"e">>, <<"r">>, <<"E">>, <<"R">>, <<"e", ",", "r">>, <<"e", ",", "R">> }

\* json.loads(s) succeeds
JsonValid(s) ==
    /\ Len(s) >= 2
    /\ s[1] = "{"
    /\ s[Len(s)] = "}"
    /\ SubSeq(s, 2, Len(s) - 1) \in JsonMembers

ExtractedEntity == [id |-> "a", name |-> "Alpha"]
ExtractedRelationship == [source |-> "a", type |-> "b-c", target |-> "a", weight |-> 1]

\* json.loads(s) for a valid s
JsonData(s) ==
    LET members == Range(SubSeq(s, 2, Len(s) - 1)) IN
    [ entities      |-> IF "e" \in members THEN List(<<ExtractedEntity>>)
                        ELSE IF "E" \in members THEN NonList
                        ELSE Missing,
      relationships |-> IF "r" \in members THEN List(<<ExtractedRelationship>>)
                        ELSE IF "R" \in members THEN NonList
                        ELSE Missing ]

\* what the LLM may answer
LlmTexts ==
    { <<"{", "e", "}">>,                  \* valid, one entity
      <<"{", "r", "}">>,                  \* valid, one relationship
      <<"{", "}">>,                       \* valid, nothing found
      <<"{", "E", "}">>,                  \* valid, entities is null
      <<"{", "R", "}">>,                  \* valid, relationships is null
      <<"{", "e", ",", "R", "}">>,        \* valid, one entity, relationships null
      <<"x", "{", "e", ",", "r", "}", "x">>, \* valid JSON inside prose
      <<"{", "e", ",", "}">>,             \* trailing comma, repairable
      <<"{", "x", "}">>,                  \* braces around junk
      <<"{", "e">>,                       \* truncated: no closing brace
      <<"x">> }                           \* no braces at all

\* outcome of one chain.invoke: a timeout, an exception, or a text
LlmOutcomes ==
    { [kind |-> "timeout", text |-> <<>>], [kind |-> "error", text |-> <<>>] }
    \cup { [kind |-> "text", text |-> t] : t \in LlmTexts }

\* mutant of CaughtByOuterExcept: the handler names json.JSONDecodeError only
CaughtByOuterExcept_JsonOnly(exc) == exc = "JSONDecodeError"

\* line 307: "except Exception" catches every exception of the attempt
CaughtByOuterExcept(exc) == TRUE

\* mutant of AttemptsLeft: one attempt too many
AttemptsLeft_OffByOne(a, n) == a <= n

\* line 222: for attempt in range(max_attempts)
AttemptsLeft(a, n) == a < n

\* lines 223-315: one iteration of the attempt loop on LLM outcome o;
\* last <=> attempt == max_attempts - 1
AttemptStep(o, last) ==
    LET return(v) == [next |-> "return", value |-> v]
        failed == IF last THEN return(EmptyResult)
                  ELSE [next |-> "continue", value |-> EmptyResult]
        outer(exc) == IF CaughtByOuterExcept(exc) THEN failed
                      ELSE [next |-> "raise", value |-> EmptyResult]
        \* lines 272 / 290: len(data.get('entities', [])) is evaluated before return
        parsed(data) == IF Get(data.entities).kind # "list" THEN outer("TypeError")
                        ELSE return(data)
    IN CASE o.kind = "timeout" -> failed                       \* lines 244-257
         [] o.kind = "error" -> outer("LLMError")              \* lines 307-315
         [] OTHER ->
            LET json_start == Find(o.text, "{")
                json_end == RFind(o.text, "}") + 1
            IN IF json_start # -1 /\ json_end # -1             \* line 264
               THEN LET json_str == Slice(o.text, json_start, json_end)
                        fixed_json == FixTrailingCommas(json_str)
                    IN IF JsonValid(json_str) THEN parsed(JsonData(json_str))
                       ELSE IF JsonValid(fixed_json) THEN parsed(JsonData(fixed_json))
                       ELSE failed                             \* lines 293-300
               ELSE failed                                     \* lines 301-305

\* literal max_attempts of the call in process_chunk (line 471)
ChunkMaxAttempts == 2

\* mutant of IsNonEmpty: an empty result counts as found
IsNonEmpty_AcceptsEmpty(entity_count, relationship_count) ==
    entity_count >= 0 \/ relationship_count > 0

\* line 478: if entity_count > 0 or relationship_count > 0
IsNonEmpty(entity_count, relationship_count) ==
    entity_count > 0 \/ relationship_count > 0

\* mutant of RetriesLeft: one retry too many
RetriesLeft_OffByOne(rc, mr) == rc <= mr + 1

\* lines 462, 488, 499: retry_count <= max_retries
RetriesLeft(rc, mr) == rc <= mr

\* process_chunk(chunk, i, total, max_retries) is entered, or
\* extract_entities_relationships(text, i, max_attempts) is called on its own
InitChunk ==
    /\ caller \in {"process_chunk", "direct"}
    /\ IF caller = "process_chunk"
       THEN /\ max_retries \in 0..MaxRetries
            /\ max_attempts = ChunkMaxAttempts
            /\ cpc = "pc_loop"
       ELSE /\ max_retries = 0
            /\ max_attempts \in 0..MaxAttempts
            /\ cpc = "ex_init"
    /\ retry_count = 0
    /\ attempt = 0
    /\ llm_calls = 0
    /\ extract_calls = 0
    /\ outcomes = <<>>
    /\ ex_result = EmptyResult
    /\ extract_returns = <<>>
    /\ chunk_result = Pending
    /\ MergeIdle
    /\ ExecIdle
    /\ PipeIdle
    /\ FlowIdle
    /\ DetectIdle
    /\ WriteIdle
    /\ ItemsIdle
    /\ PoolIdle

\* lines 462-471: top of the while loop; calls the extraction
ProcessChunkLoop ==
    /\ cpc = "pc_loop"
    /\ IF RetriesLeft(retry_count, max_retries)
       THEN /\ cpc' = "ex_init"
            /\ extract_calls' = extract_calls + 1
            /\ UNCHANGED chunk_result
       ELSE /\ cpc' = "pc_returned"          \* loop left: implicit return None
            /\ chunk_result' = PyNone
            /\ UNCHANGED extract_calls
    /\ attempt' = 0
    /\ llm_calls' = 0
    /\ outcomes' = <<>>
    /\ UNCHANGED <<caller, max_retries, max_attempts, retry_count, ex_result,
                   extract_returns>>
    /\ UNCHANGED notChunkVars

\* lines 142-152: Ollama(...) is constructed; a failure returns the empty result
ExtractInit ==
    /\ cpc = "ex_init"
    /\ \E init_ok \in BOOLEAN :
          IF init_ok
          THEN /\ cpc' = "ex_loop"
               /\ UNCHANGED <<ex_result, extract_returns>>
          ELSE /\ cpc' = "ex_returned"
               /\ ex_result' = EmptyResult
               /\ extract_returns' = Append(extract_returns, EmptyResult)
    /\ UNCHANGED <<caller, max_retries, max_attempts, retry_count, attempt,
                   llm_calls, extract_calls, outcomes, chunk_result>>
    /\ UNCHANGED notChunkVars

\* lines 222-319: one iteration of the attempt loop, or the loop's end
ExtractAttempt ==
    /\ cpc = "ex_loop"
    /\ IF AttemptsLeft(attempt, max_attempts)
       THEN \E o \in LlmOutcomes :
               LET step == AttemptStep(o, attempt = max_attempts - 1) IN
               /\ llm_calls' = llm_calls + 1
               /\ outcomes' = Append(outcomes, o)
               /\ attempt' = attempt + 1
               /\ CASE step.next = "return" ->
                          /\ cpc' = "ex_returned"
                          /\ ex_result' = step.value
                          /\ extract_returns' = Append(extract_returns, step.value)
                    [] step.next = "raise" ->
                          /\ cpc' = "ex_raised"
                          /\ UNCHANGED <<ex_result, extract_returns>>
                    [] OTHER ->
                          /\ cpc' = "ex_loop"
                          /\ UNCHANGED <<ex_result, extract_returns>>
       ELSE /\ cpc' = "ex_returned"              \* lines 317-319
            /\ ex_result' = EmptyResult
            /\ extract_returns' = Append(extract_returns, EmptyResult)
            /\ UNCHANGED <<llm_calls, outcomes, attempt>>
    /\ UNCHANGED <<caller, max_retries, max_attempts, retry_count, extract_calls,
                   chunk_result>>
    /\ UNCHANGED notChunkVars

\* lines 473-506: process_chunk looks at what the extraction returned (or
\* catches what it raised) and returns or retries
ProcessChunkCheck ==
    /\ caller = "process_chunk"
    /\ cpc \in {"ex_returned", "ex_raised"}
    /\ LET entities == Get(ex_result.entities)
           relationships == Get(ex_result.relationships)
           raised == \/ cpc = "ex_raised"
                     \/ entities.kind # "list"          \* len() raises TypeError
                     \/ relationships.kind # "list"
       IN IF ~raised /\ IsNonEmpty(Len(entities.items), Len(relationships.items))
          THEN /\ cpc' = "pc_returned"                  \* line 484
               /\ chunk_result' = Some(ex_result)
               /\ UNCHANGED retry_count
          ELSE /\ retry_count' = retry_count + 1        \* lines 487, 498
               /\ IF RetriesLeft(retry_count + 1, max_retries)
                  THEN /\ cpc' = "pc_loop"
                       /\ UNCHANGED chunk_result
                  ELSE /\ cpc' = "pc_returned"          \* lines 493, 506
                       /\ chunk_result' = PyNone
    /\ UNCHANGED <<caller, max_retries, max_attempts, attempt, llm_calls,
                   extract_calls, outcomes, ex_result, extract_returns>>
    /\ UNCHANGED notChunkVars

NextChunk == ProcessChunkLoop \/ ExtractInit \/ ExtractAttempt \/ ProcessChunkCheck

SpecChunk == InitChunk /\ [][NextChunk]_vars

(***************************************************************************)
(* Duplicate Resolution Engine: execute_resolution_plan.                   *)
(* The plan is read as the code reads it: the for-loops take one more      *)
(* entry / step of the plan's lists, or find the list exhausted.  plans    *)
(* records what has been iterated so far.                                  *)
(***************************************************************************)
\* resolution_plan["groups"], as the list of its group_ids
GroupLists == { <<>>, <<"g1">>, <<"g1", "g2">> }

\* group_ids a plan entry may carry ("g9" names no group)
PlanGroupIds == {"g1", "g2", "g9"}

\* values of the group_idx argument when it is not None
GroupIdxArgs == {-1, 0, 1, 2}

\* what the operator may type at a prompt
Answers == {"y", "Y", "n", ""}

\* str.lower() on the answers
Lower(ans) == CASE ans = "Y" -> "y" [] OTHER -> ans

\* the operator typed a yes
SaidYes(ans) == ans \in {"y", "Y"}

\* mutant of Approves: everything but "n" counts as approval
Approves_AllButN(ans) == ans # "n"

\* lines 1194, 1238, 1333: input(...).lower() == 'y'
Approves(ans) == Lower(ans) = "y"

\* mutant of FlagAfterBreak: the flag is not cleared before the break
FlagAfterBreak_NotCleared == TRUE

\* lines 1170, 1201, 1245, 1265, 1309, 1340: the stage flag is set to False
\* before the break
FlagAfterBreak == FALSE

\* mutant of AppendEntry: the new entry replaces the list
AppendEntry_Replaces(entries, entry) == <<entry>>

\* lines 1158, 1250, 1258, 1297: list.append(entry)
AppendEntry(entries, entry) == Append(entries, entry)

\* mutant of AfterHalt: a halted group ends the loop over the plan entries
AfterHalt_LeavesLoop == "report"

\* lines 1214, 1285: continue, the loop goes on with the next plan entry
AfterHalt == "next_plan"

\* size of the plan iterated so far: its entries and their steps
RECURSIVE PlanSize(_)
PlanSize(ps) ==
    IF ps = <<>> THEN 0
    ELSE 1 + Head(ps).pre + Len(Head(ps).ops) + Head(ps).post + PlanSize(Tail(ps))

\* user_approved of a result entry: the key is absent until a prompt is answered
PyBool(b) == IF b THEN "True" ELSE "False"

InitExec ==
    /\ xpc = "start"
    /\ all_groups \in GroupLists
    /\ single \in BOOLEAN
    /\ group_idx \in (IF single THEN GroupIdxArgs ELSE {0})
    /\ groups = <<>>
    /\ plans = <<>>
    /\ plan_exhausted = FALSE
    /\ validation_passed = TRUE
    /\ merge_successful = TRUE
    /\ post_validation_passed = TRUE
    /\ group_result = NoGroupResult
    /\ execution_results = NoReport
    /\ queries = <<>>
    /\ prompts = <<>>
    /\ last_answer = ""
    /\ ret = "none"
    /\ MergeIdle
    /\ ChunkIdle
    /\ PipeIdle
    /\ FlowIdle
    /\ DetectIdle
    /\ WriteIdle
    /\ ItemsIdle
    /\ PoolIdle

\* lines 1090-1126: the plan is checked, plans and groups are selected and the
\* report is created
ExecStart ==
    /\ xpc = "start"
    /\ \E plan_empty \in BOOLEAN, matches \in BOOLEAN :
          LET fail == /\ xpc' = "done"
                      /\ ret' = "False"
                      /\ UNCHANGED <<groups, execution_results>>
              run(gs) == /\ xpc' = "next_plan"
                         /\ groups' = gs
                         /\ execution_results' = [NoReport EXCEPT !.total_groups = Len(gs)]
                         /\ UNCHANGED ret
          IN IF plan_empty THEN fail                                   \* line 1091
             ELSE IF single
                  THEN IF group_idx < 0 \/ group_idx >= Len(all_groups)
                       THEN fail                                       \* line 1097
                       ELSE IF ~matches THEN fail                      \* line 1105
                            ELSE run(<<all_groups[group_idx + 1]>>)    \* line 1110
                  ELSE run(all_groups)                                 \* line 1114
    /\ UNCHANGED <<all_groups, single, group_idx, plans, validation_passed,
                   merge_successful, post_validation_passed, group_result,
                   queries, prompts, last_answer>>
    /\ UNCHANGED plan_exhausted
    /\ UNCHANGED notExecVars

\* lines 1128-1150: the for-loop takes the next plan entry and looks its
\* group up, or ends
NextPlan ==
    /\ xpc = "next_plan"
    /\ \E more \in BOOLEAN :
          /\ plans = <<>> => more          \* the list was checked non-empty
          /\ PlanSize(plans) >= MaxPlanSize => ~more
          /\ IF more
             THEN \E gid \in (IF single THEN {groups[1]} ELSE PlanGroupIds) :
                     /\ plans' = Append(plans, [group_id |-> gid, pre |-> 0,
                                                ops |-> <<>>, post |-> 0])
                     /\ IF gid \in Range(groups)
                        THEN /\ xpc' = "pre"
                             /\ group_result' =
                                   [ group_id |-> gid, status |-> "pending",
                                     details |-> <<>>,
                                     pre_validation_results |-> <<>>,
                                     operation_results |-> <<>>,
                                     post_validation_results |-> <<>> ]
                             /\ validation_passed' = TRUE
                        ELSE /\ xpc' = "next_plan"                    \* line 1133
                             /\ UNCHANGED <<group_result, validation_passed>>
             ELSE /\ xpc' = "report"
                  /\ UNCHANGED <<plans, group_result, validation_passed>>
          /\ plan_exhausted' = ~more
    /\ UNCHANGED <<all_groups, single, group_idx, groups, merge_successful,
                   post_validation_passed, execution_results, queries, prompts,
                   last_answer, ret>>
    /\ UNCHANGED notExecVars

\* one iteration of a validation loop (pre: lines 1152-1207, post: lines
\* 1291-1346): the query runs and is recorded; if it succeeded the operator
\* is asked; a failure or a rejection sets the status and breaks
ValidationStep(stage, stage_results, failed_status, rejected_status, end_pc) ==
    \E more \in BOOLEAN :
       /\ PlanSize(plans) >= MaxPlanSize => ~more
       /\ IF ~more
          THEN /\ xpc' = end_pc
               /\ UNCHANGED <<plans, group_result, queries, prompts, last_answer>>
          ELSE LET i == Len(plans)
                   j == Len(stage_results) + 1
               IN \E success \in BOOLEAN, ans \in Answers :
                     /\ ~success => ans = last_answer   \* no prompt after a failed query
                     /\ last_answer' = ans
                     /\ plans' = IF stage = "pre"
                                 THEN [plans EXCEPT ![i].pre = @ + 1]
                                 ELSE [plans EXCEPT ![i].post = @ + 1]
                     /\ queries' = Append(queries, [plan |-> i, stage |-> stage,
                                                    step |-> j, success |-> success])
                     /\ prompts' = IF success
                                   THEN Append(prompts, [plan |-> i, stage |-> stage,
                                                         step |-> j, yes |-> SaidYes(ans)])
                                   ELSE prompts
                     /\ LET entry == [ step |-> j, success |-> success,
                                       user_approved |->
                                          IF success THEN PyBool(Approves(ans))
                                          ELSE "unset" ]
                            status == IF ~success THEN failed_status
                                      ELSE IF ~Approves(ans) THEN rejected_status
                                      ELSE group_result.status
                            details == IF success /\ Approves(ans)
                                       THEN group_result.details
                                       ELSE Append(group_result.details,
                                                   <<stage, j, status>>)
                            new_results == AppendEntry(stage_results, entry)
                       IN group_result' =
                             IF stage = "pre"
                             THEN [group_result EXCEPT
                                      !.pre_validation_results = new_results,
                                      !.status = status, !.details = details]
                             ELSE [group_result EXCEPT
                                      !.post_validation_results = new_results,
                                      !.status = status, !.details = details]
                     /\ xpc' = IF success /\ Approves(ans) THEN xpc ELSE end_pc

\* lines 1152-1207
PreStep ==
    /\ xpc = "pre"
    /\ ValidationStep("pre", group_result.pre_validation_results,
                      "pre_validation_failed", "pre_validation_rejected", "pre_end")
    /\ validation_passed' = IF xpc' = "pre_end" /\ queries' # queries
                            THEN FlagAfterBreak ELSE validation_passed
    /\ UNCHANGED <<all_groups, single, group_idx, groups, merge_successful,
                   post_validation_passed, execution_results, ret>>
    /\ UNCHANGED plan_exhausted
    /\ UNCHANGED notExecVars

\* lines 1209-1218
PreEnd ==
    /\ xpc = "pre_end"
    /\ IF ~validation_passed
       THEN /\ execution_results' =
                  [execution_results EXCEPT
                      !.skipped_groups = @ + 1,
                      !.group_results = Append(@, group_result)]
            /\ xpc' = AfterHalt
            /\ UNCHANGED merge_successful
       ELSE /\ merge_successful' = TRUE
            /\ xpc' = "ops"
            /\ UNCHANGED execution_results
    /\ UNCHANGED <<all_groups, single, group_idx, groups, plans, validation_passed,
                   post_validation_passed, group_result, queries, prompts,
                   last_answer, ret>>
    /\ UNCHANGED plan_exhausted
    /\ UNCHANGED notExecVars

\* lines 1220-1278: one iteration of the merge-operation loop
OpStep ==
    /\ xpc = "ops"
    /\ \E more \in BOOLEAN :
          /\ PlanSize(plans) >= MaxPlanSize => ~more
          /\ IF ~more
             THEN /\ xpc' = "ops_end"
                  /\ UNCHANGED <<plans, group_result, queries, prompts, last_answer,
                                 merge_successful>>
             ELSE LET i == Len(plans)
                      j == Len(group_result.operation_results) + 1
                  IN \E requires_confirmation \in BOOLEAN, ans \in Answers,
                        success \in BOOLEAN :
                        LET rejected == requires_confirmation /\ ~Approves(ans)
                            operation_result ==
                               [ step |-> j,
                                 requires_confirmation |-> requires_confirmation,
                                 executed |-> ~rejected,
                                 success |-> ~rejected /\ success,
                                 user_approved |->
                                    IF requires_confirmation THEN PyBool(Approves(ans))
                                    ELSE "unset",
                                 user_skipped |-> rejected ]
                            status == IF rejected THEN "operation_rejected"
                                      ELSE IF ~success THEN "operation_failed"
                                      ELSE group_result.status
                            broke == rejected \/ ~success
                        IN /\ ~requires_confirmation => ans = last_answer  \* no prompt
                           /\ last_answer' = ans
                           /\ rejected => ~success                  \* no query
                           /\ plans' = [plans EXCEPT
                                           ![i].ops = Append(@, requires_confirmation)]
                           /\ prompts' = IF requires_confirmation
                                         THEN Append(prompts,
                                                 [plan |-> i, stage |-> "op",
                                                  step |-> j, yes |-> SaidYes(ans)])
                                         ELSE prompts
                           /\ queries' = IF rejected THEN queries
                                         ELSE Append(queries,
                                                 [plan |-> i, stage |-> "op",
                                                  step |-> j, success |-> success])
                           /\ group_result' =
                                 [group_result EXCEPT
                                     !.operation_results = AppendEntry(@, operation_result),
                                     !.status = status,
                                     !.details = IF broke
                                                 THEN Append(@, <<"op", j, status>>)
                                                 ELSE @]
                           /\ merge_successful' = IF broke THEN FlagAfterBreak
                                                  ELSE merge_successful
                           /\ xpc' = IF broke THEN "ops_end" ELSE "ops"
    /\ UNCHANGED <<all_groups, single, group_idx, groups, validation_passed,
                   post_validation_passed, execution_results, ret>>
    /\ UNCHANGED plan_exhausted
    /\ UNCHANGED notExecVars

\* lines 1280-1289
OpsEnd ==
    /\ xpc = "ops_end"
    /\ IF ~merge_successful
       THEN /\ execution_results' =
                  [execution_results EXCEPT
                      !.failed_groups = @ + 1,
                      !.group_results = Append(@, group_result)]
            /\ xpc' = AfterHalt
            /\ UNCHANGED post_validation_passed
       ELSE /\ post_validation_passed' = TRUE
            /\ xpc' = "post"
            /\ UNCHANGED execution_results
    /\ UNCHANGED <<all_groups, single, group_idx, groups, plans, validation_passed,
                   merge_successful, group_result, queries, prompts, last_answer, ret>>
    /\ UNCHANGED plan_exhausted
    /\ UNCHANGED notExecVars

\* lines 1291-1346
PostStep ==
    /\ xpc = "post"
    /\ ValidationStep("post", group_result.post_validation_results,
                      "post_validation_failed", "post_validation_rejected", "post_end")
    /\ post_validation_passed' = IF xpc' = "post_end" /\ queries' # queries
                                 THEN FlagAfterBreak ELSE post_validation_passed
    /\ UNCHANGED <<all_groups, single, group_idx, groups, validation_passed,
                   merge_successful, execution_results, ret>>
    /\ UNCHANGED plan_exhausted
    /\ UNCHANGED notExecVars

\* lines 1348-1362
PostEnd ==
    /\ xpc = "post_end"
    /\ LET all_passed == validation_passed /\ merge_successful /\ post_validation_passed
           final == [group_result EXCEPT
                        !.status = IF all_passed THEN "success"
                                   ELSE IF post_validation_passed THEN "partial_success"
                                   ELSE @]
       IN /\ group_result' = final
          /\ execution_results' =
                [execution_results EXCEPT
                    !.successful_groups = IF all_passed THEN @ + 1 ELSE @,
                    !.failed_groups =
                        IF ~all_passed /\ post_validation_passed THEN @ + 1 ELSE @,
                    !.group_results = Append(@, final)]
    /\ xpc' = "next_plan"
    /\ UNCHANGED <<all_groups, single, group_idx, groups, plans, validation_passed,
                   merge_successful, post_validation_passed, queries, prompts,
                   last_answer, ret>>
    /\ UNCHANGED plan_exhausted
    /\ UNCHANGED notExecVars

\* lines 1364-1385: the report is printed and saved, the verdict returned
Report ==
    /\ xpc = "report"
    /\ ret' = PyBool(execution_results.failed_groups <= 0)
    /\ xpc' = "done"
    /\ UNCHANGED <<all_groups, single, group_idx, groups, plans, validation_passed,
                   merge_successful, post_validation_passed, group_result,
                   execution_results, queries, prompts, last_answer>>
    /\ UNCHANGED plan_exhausted
    /\ UNCHANGED notExecVars

NextExec ==
    \/ ExecStart \/ NextPlan
    \/ PreStep \/ PreEnd
    \/ OpStep \/ OpsEnd
    \/ PostStep \/ PostEnd
    \/ Report

SpecExec == InitExec /\ [][NextExec]_vars

(***************************************************************************)
(* Pipeline driver: process_document_to_graph, with the pool workers       *)
(* (process_chunk_wrapper), the completion callbacks (update_progress) and *)
(* the two locks they share with the driver.  process_chunk is taken by    *)
(* its outcome: a non-empty result, or None after its retries.             *)
(***************************************************************************)
\* the result process_chunk returns when chunk i yields something
ChunkData(i) ==
    [ entities |-> <<[id |-> "c" \o ToString(i), name |-> "Alpha"]>>,
      relationships |-> <<>> ]

\* what process_chunk may return for chunk i
ChunkOutcomes(i) == {PyNone, Some(ChunkData(i))}

\* what load_extracted_data may return: None, an empty list or cached results
CachedData == {<<>>, <<ChunkData(1)>>}

\* truth value of a process_chunk result ("if result:", "if extracted_data:")
Truthy(r) == r.kind = "data"

\* a future is done once it is finished or cancelled
Done(i) == futures[i] \in {"finished", "cancelled"}

\* pool threads that are occupied: running a chunk or its callback
Busy == {i \in DOMAIN futures :
            \/ futures[i] = "running"
            \/ futures[i] = "finished" /\ callback[i] # "done"}

\* line 814: results[idx] = result
SlotOf(idx) == idx

\* line 892: [result for result in results if result is not None]
RECURSIVE NonNone(_)
NonNone(rs) ==
    IF rs = <<>> THEN <<>>
    ELSE IF Head(rs) = PyNone THEN NonNone(Tail(rs))
         ELSE <<Head(rs).data>> \o NonNone(Tail(rs))

\* one access of the chunk-status map by a thread; locked tells whether the
\* thread holds extraction_step_lock while it reads or writes
Access(thread, op, locked) == [thread |-> thread, op |-> op, locked |-> locked]

\* lines 605-607, 613-620: _print_status is called when verbose_extraction is
\* set and print_interval has passed; it reads extraction_steps (lines 679,
\* 683) in the thread that called update or mark_chunk_active
PrintStatus(prints, thread, holds_step_lock) ==
    IF prints THEN Access(thread, "read", holds_step_lock) ELSE last_access

\* lines 624-634: the chunks check_for_hangs reports: active, with an entry in
\* extraction_steps, and over the hang threshold (the time of a chunk is
\* counted from its mark, taken here as not later than its start)
hung_chunks == {i \in active_chunks : i \in extraction_steps /\ i \in overdue}

InitPipe ==
    /\ ppc = "start"
    /\ parallel \in BOOLEAN
    /\ max_workers \in 1..MaxWorkers
    /\ pipe_input = "unset"
    /\ chunks = 0
    /\ futures = <<>>
    /\ returned = <<>>
    /\ callback = <<>>
    /\ tracker_lock = "none"
    /\ extraction_step_lock = "none"
    /\ active_chunks = {}
    /\ results = <<>>
    /\ all_extracted_data = <<>>
    /\ remaining_futures = {}
    /\ completed_count = 0
    /\ timed_out = FALSE
    /\ build_calls = 0
    /\ pipe_error = ""
    /\ verbose_extraction \in BOOLEAN
    /\ extraction_steps = {}
    /\ overdue = {}
    /\ last_check = [overdue |-> {}, reported |-> {}]
    /\ last_access = [thread |-> "none", op |-> "none", locked |-> TRUE]
    /\ MergeIdle
    /\ ChunkIdle
    /\ ExecIdle
    /\ FlowIdle
    /\ DetectIdle
    /\ WriteIdle
    /\ ItemsIdle
    /\ PoolIdle

\* lines 738-806: connect, load the cache or load and split the document
PipeStart ==
    /\ ppc = "start"
    /\ \E connected \in BOOLEAN, load_data \in BOOLEAN, cached \in CachedData,
          n \in 0..MaxChunks :
          IF ~connected
          THEN /\ pipe_error' = "ConnectionError"               \* line 741 raises
               /\ pipe_input' = "connect_error"
               /\ ppc' = "finally"
               /\ UNCHANGED <<chunks, returned, results, all_extracted_data>>
          ELSE IF load_data /\ cached # <<>>
          THEN /\ all_extracted_data' = cached              \* line 751
               /\ pipe_input' = "cache"
               /\ ppc' = "merge"
               /\ UNCHANGED <<chunks, returned, results, pipe_error>>
          ELSE /\ pipe_input' = "document"
               /\ chunks' = n                                \* line 788
               /\ returned' = [i \in 1..n |-> Pending]
               /\ results' = IF parallel THEN [i \in 1..n |-> PyNone] ELSE results
               /\ ppc' = IF parallel THEN "submit" ELSE "sequential"
               /\ UNCHANGED <<all_extracted_data, pipe_error>>
    /\ UNCHANGED <<parallel, max_workers, futures, callback, tracker_lock,
                   extraction_step_lock, active_chunks, remaining_futures,
                   completed_count, timed_out, build_calls>>
    /\ UNCHANGED hangVars
    /\ UNCHANGED notPipeVars

\* lines 907-928: one iteration of the sequential loop
PipeSequential ==
    /\ ppc = "sequential"
    /\ LET i == Cardinality({j \in 1..chunks : returned[j] # Pending}) + 1
       IN IF i > chunks
          THEN /\ ppc' = "merge"
               /\ UNCHANGED <<returned, all_extracted_data>>
          ELSE \E extracted_data \in ChunkOutcomes(i) :
                  /\ returned' = [returned EXCEPT ![i] = extracted_data]
                  /\ all_extracted_data' =
                        IF Truthy(extracted_data)
                        THEN Append(all_extracted_data, extracted_data.data)
                        ELSE all_extracted_data
                  /\ UNCHANGED ppc
    /\ UNCHANGED <<parallel, max_workers, pipe_input, chunks, futures, callback,
                   tracker_lock, extraction_step_lock, active_chunks, results,
                   remaining_futures, completed_count, timed_out, build_calls, pipe_error>>
    /\ UNCHANGED hangVars
    /\ UNCHANGED notPipeVars

\* lines 844-851: one iteration of the submission loop; the first max_workers
\* chunks are marked active (ProgressTracker.lock is taken for that)
PipeSubmit ==
    /\ ppc = "submit"
    /\ LET i == Len(futures) + 1
       IN IF i > chunks
          THEN /\ ppc' = "wait"
               /\ remaining_futures' = 1..chunks               \* line 857
               /\ UNCHANGED <<futures, callback, active_chunks>>
               /\ UNCHANGED last_access
          ELSE /\ i <= max_workers => tracker_lock = "none"
               /\ active_chunks' = IF i <= max_workers
                                   THEN active_chunks \cup {i} ELSE active_chunks
               /\ \E prints \in BOOLEAN :
                     /\ prints => verbose_extraction /\ i <= max_workers
                     /\ last_access' =
                           PrintStatus(prints, "driver", extraction_step_lock = "driver")
               /\ futures' = Append(futures, "pending")
               /\ callback' = Append(callback, "idle")
               /\ UNCHANGED <<ppc, remaining_futures>>
    /\ UNCHANGED <<parallel, max_workers, pipe_input, chunks, returned, tracker_lock,
                   extraction_step_lock, results, all_extracted_data,
                   completed_count, timed_out, build_calls, pipe_error>>
    /\ UNCHANGED <<verbose_extraction, extraction_steps, overdue, last_check>>
    /\ UNCHANGED notPipeVars

\* a pool thread takes the oldest queued future and runs process_chunk_wrapper
WorkerStart(i) ==
    /\ ppc \notin {"idle", "start"}
    /\ i \in DOMAIN futures
    /\ futures[i] = "pending"
    /\ \A j \in 1..(i - 1) : futures[j] # "pending"
    /\ Cardinality(Busy) < max_workers
    /\ futures' = [futures EXCEPT ![i] = "running"]
    /\ UNCHANGED <<ppc, parallel, max_workers, pipe_input, chunks, returned, callback,
                   tracker_lock, extraction_step_lock, active_chunks, results,
                   all_extracted_data, remaining_futures, completed_count, timed_out,
                   build_calls, pipe_error>>
    /\ UNCHANGED hangVars
    /\ UNCHANGED notPipeVars

\* lines 531-543 and 459-506: process_chunk returns (its last step clears the
\* chunk's status under extraction_step_lock) and the future is set finished;
\* waiters are woken before the callback runs
WorkerFinish(i) ==
    /\ i \in DOMAIN futures
    /\ futures[i] = "running"
    /\ extraction_step_lock = "none"
    /\ \E result \in ChunkOutcomes(i) :
          returned' = [returned EXCEPT ![i] = result]
    /\ futures' = [futures EXCEPT ![i] = "finished"]
    /\ callback' = [callback EXCEPT ![i] = "ready"]
    /\ extraction_steps' = extraction_steps \ {i}            \* lines 481-483
    /\ last_access' = Access("worker", "write", TRUE)
    /\ overdue' = overdue \ {i}
    /\ UNCHANGED <<ppc, parallel, max_workers, pipe_input, chunks, tracker_lock,
                   extraction_step_lock, active_chunks, results, all_extracted_data,
                   remaining_futures, completed_count, timed_out, build_calls,
                   pipe_error>>
    /\ UNCHANGED <<verbose_extraction, last_check>>
    /\ UNCHANGED notPipeVars

\* lines 809-820: update_progress reads the future and stores a truthy result
CallbackStore(i) ==
    /\ i \in DOMAIN callback
    /\ callback[i] = "ready"
    /\ results' = IF Truthy(returned[i]) /\ SlotOf(i) \in DOMAIN results
                  THEN [results EXCEPT ![SlotOf(i)] = returned[i]]
                  ELSE results
    /\ callback' = [callback EXCEPT ![i] = "stored"]
    /\ UNCHANGED <<ppc, parallel, max_workers, pipe_input, chunks, futures, returned,
                   tracker_lock, extraction_step_lock, active_chunks,
                   all_extracted_data, remaining_futures, completed_count, timed_out,
                   build_calls, pipe_error>>
    /\ UNCHANGED hangVars
    /\ UNCHANGED notPipeVars

\* lines 823, 576: progress_tracker.update takes ProgressTracker.lock
CallbackLock(i) ==
    /\ i \in DOMAIN callback
    /\ callback[i] = "stored"
    /\ tracker_lock = "none"
    /\ tracker_lock' = "callback"
    /\ callback' = [callback EXCEPT ![i] = "updating"]
    /\ UNCHANGED <<ppc, parallel, max_workers, pipe_input, chunks, futures, returned,
                   extraction_step_lock, active_chunks, results, all_extracted_data,
                   remaining_futures, completed_count, timed_out, build_calls,
                   pipe_error>>
    /\ UNCHANGED hangVars
    /\ UNCHANGED notPipeVars

\* lines 577-586: holding ProgressTracker.lock, update removes the chunk from
\* active_chunks and takes extraction_step_lock for the clean-up of the map
CallbackUpdate(i) ==
    /\ i \in DOMAIN callback
    /\ callback[i] = "updating"
    /\ extraction_step_lock = "none"
    /\ active_chunks' = active_chunks \ {i}
    /\ extraction_steps' = extraction_steps \ {i}
    /\ last_access' = Access("callback", "write", TRUE)
    /\ callback' = [callback EXCEPT ![i] = "printing"]
    /\ UNCHANGED <<ppc, parallel, max_workers, pipe_input, chunks, futures, returned,
                   tracker_lock, extraction_step_lock, results, all_extracted_data,
                   remaining_futures, completed_count, timed_out, build_calls,
                   pipe_error>>
    /\ UNCHANGED <<verbose_extraction, overdue, last_check>>
    /\ UNCHANGED notPipeVars

\* lines 588-607: extraction_step_lock has been released; the status is
\* printed if it is due, then ProgressTracker.lock is released
CallbackPrint(i) ==
    /\ i \in DOMAIN callback
    /\ callback[i] = "printing"
    /\ \E prints \in BOOLEAN :
          /\ prints => verbose_extraction
          /\ last_access' = PrintStatus(prints, "callback", FALSE)
    /\ tracker_lock' = "none"
    /\ callback' = [callback EXCEPT ![i] = "done"]
    /\ UNCHANGED <<ppc, parallel, max_workers, pipe_input, chunks, futures, returned,
                   extraction_step_lock, active_chunks, results, all_extracted_data,
                   remaining_futures, completed_count, timed_out, build_calls,
                   pipe_error>>
    /\ UNCHANGED <<verbose_extraction, extraction_steps, overdue, last_check>>
    /\ UNCHANGED notPipeVars

\* lines 129-135: update_extraction_step writes the chunk's entry under
\* extraction_step_lock, and does nothing unless verbose_extraction is set
\* (a later call replaces the entry)
WorkerStep(i) ==
    /\ i \in DOMAIN futures
    /\ futures[i] = "running"
    /\ verbose_extraction
    /\ i \notin extraction_steps
    /\ extraction_step_lock = "none"
    /\ extraction_steps' = extraction_steps \cup {i}
    /\ last_access' = Access("worker", "write", TRUE)
    /\ UNCHANGED <<ppc, parallel, max_workers, pipe_input, chunks, futures, returned,
                   callback, tracker_lock, extraction_step_lock, active_chunks,
                   results, all_extracted_data, remaining_futures, completed_count,
                   timed_out, build_calls, pipe_error>>
    /\ UNCHANGED <<verbose_extraction, overdue, last_check>>
    /\ UNCHANGED notPipeVars

\* time passes: chunk i has been executing for longer than hang_threshold
WorkerOverdue(i) ==
    /\ i \in DOMAIN futures
    /\ futures[i] = "running"
    /\ i \notin overdue
    /\ overdue' = overdue \cup {i}
    /\ UNCHANGED <<ppc, parallel, max_workers, pipe_input, chunks, futures, returned,
                   callback, tracker_lock, extraction_step_lock, active_chunks,
                   results, all_extracted_data, remaining_futures, completed_count,
                   timed_out, build_calls, pipe_error>>
    /\ UNCHANGED <<verbose_extraction, extraction_steps, last_check, last_access>>
    /\ UNCHANGED notPipeVars

\* lines 858-871: the loop test, concurrent.futures.wait (it returns the
\* futures that are done, or nothing after 30 s) and the activation of as
\* many further chunks as futures were seen completed
PipeWait ==
    /\ ppc = "wait"
    /\ IF remaining_futures = {}
       THEN /\ ppc' = "collect"
            /\ UNCHANGED <<remaining_futures, completed_count, active_chunks,
                           last_access>>
       ELSE LET just_completed == {i \in remaining_futures : Done(i)}
                count == completed_count + Cardinality(just_completed)
                marked == {k \in 1..chunks :
                              /\ k >= max_workers + completed_count + 1
                              /\ k <= max_workers + count}
            IN /\ marked # {} => tracker_lock = "none"     \* mark_chunk_active
               /\ \E prints \in BOOLEAN :
                     /\ prints => verbose_extraction /\ marked # {}
                     /\ last_access' =
                           PrintStatus(prints, "driver", extraction_step_lock = "driver")
               /\ remaining_futures' = remaining_futures \ just_completed
               /\ completed_count' = count
               /\ active_chunks' = active_chunks \cup marked
               /\ ppc' = "hang_check"
    /\ UNCHANGED <<parallel, max_workers, pipe_input, chunks, futures, returned,
                   callback, tracker_lock, extraction_step_lock, results,
                   all_extracted_data, timed_out, build_calls, pipe_error>>
    /\ UNCHANGED <<verbose_extraction, extraction_steps, overdue, last_check>>
    /\ UNCHANGED notPipeVars

\* line 874: with extraction_step_lock
PipeHangLock ==
    /\ ppc = "hang_check"
    /\ extraction_step_lock = "none"
    /\ extraction_step_lock' = "driver"
    /\ ppc' = "check_for_hangs"
    /\ UNCHANGED <<parallel, max_workers, pipe_input, chunks, futures, returned,
                   callback, tracker_lock, active_chunks, results, all_extracted_data,
                   remaining_futures, completed_count, timed_out, build_calls,
                   pipe_error>>
    /\ UNCHANGED hangVars
    /\ UNCHANGED notPipeVars

\* lines 874-875, 622-650: check_for_hangs takes ProgressTracker.lock while
\* the driver holds extraction_step_lock, reads active_chunks and
\* extraction_steps and returns the hung chunks; both locks are released
PipeCheckHangs ==
    /\ ppc = "check_for_hangs"
    /\ tracker_lock = "none"
    /\ last_check' = [overdue |-> overdue, reported |-> hung_chunks]
    /\ last_access' = Access("driver", "read", extraction_step_lock = "driver")
    /\ extraction_step_lock' = "none"
    /\ ppc' = "timeout_test"
    /\ UNCHANGED <<parallel, max_workers, pipe_input, chunks, futures, returned,
                   callback, tracker_lock, active_chunks, results, all_extracted_data,
                   remaining_futures, completed_count, timed_out, build_calls,
                   pipe_error>>
    /\ UNCHANGED <<verbose_extraction, extraction_steps, overdue>>
    /\ UNCHANGED notPipeVars

\* lines 877-882: the 24 hour timeout cancels the futures that have not
\* started and leaves the loop
PipeGlobalTimeout ==
    /\ ppc = "timeout_test"
    /\ \E timeout \in BOOLEAN :
          IF timeout
          THEN /\ futures' = [i \in DOMAIN futures |->
                                IF i \in remaining_futures /\ futures[i] = "pending"
                                THEN "cancelled" ELSE futures[i]]
               /\ timed_out' = TRUE
               /\ ppc' = "collect"
          ELSE /\ ppc' = "wait"
               /\ UNCHANGED <<futures, timed_out>>
    /\ UNCHANGED <<parallel, max_workers, pipe_input, chunks, returned, callback,
                   tracker_lock, extraction_step_lock, active_chunks, results,
                   all_extracted_data, remaining_futures, completed_count,
                   build_calls, pipe_error>>
    /\ UNCHANGED hangVars
    /\ UNCHANGED notPipeVars

\* lines 890-896: the non-None slots are collected, inside the with block
PipeCollect ==
    /\ ppc = "collect"
    /\ all_extracted_data' = NonNone(results)
    /\ ppc' = "shutdown"
    /\ UNCHANGED <<parallel, max_workers, pipe_input, chunks, futures, returned,
                   callback, tracker_lock, extraction_step_lock, active_chunks,
                   results, remaining_futures, completed_count, timed_out,
                   build_calls, pipe_error>>
    /\ UNCHANGED hangVars
    /\ UNCHANGED notPipeVars

\* line 838: leaving the with block waits for the pool threads to end
PipeShutdown ==
    /\ ppc = "shutdown"
    /\ \A i \in DOMAIN futures :
          /\ Done(i)
          /\ futures[i] = "finished" => callback[i] = "done"
    /\ ppc' = "merge"
    /\ UNCHANGED <<parallel, max_workers, pipe_input, chunks, futures, returned,
                   callback, tracker_lock, extraction_step_lock, active_chunks,
                   results, all_extracted_data, remaining_futures, completed_count,
                   timed_out, build_calls, pipe_error>>
    /\ UNCHANGED hangVars
    /\ UNCHANGED notPipeVars

\* lines 937-984: the emptiness test on merged_data, the merge and the graph
\* build.  merged_data is a local of the function that is first assigned at
\* line 944; reading it before raises UnboundLocalError, which the handler
\* at line 1014 catches.
PipeMergeAndBuild ==
    /\ ppc = "merge"
    /\ IF merged_data = NotReturned                                 \* line 937
       THEN /\ pipe_error' = "UnboundLocalError"
            /\ UNCHANGED <<data_list, merged_data, mpc, build_calls>>
       ELSE IF merged_data.entities = <<>> /\ merged_data.relationships = <<>>
       THEN UNCHANGED <<data_list, merged_data, mpc, build_calls, pipe_error>>
       ELSE /\ data_list' = all_extracted_data
            /\ merged_data' = merge_extracted_data(all_extracted_data) \* line 944
            /\ mpc' = "merged"
            /\ build_calls' = build_calls + 1                        \* line 983
            /\ UNCHANGED pipe_error
    /\ ppc' = "finally"
    /\ UNCHANGED <<parallel, max_workers, pipe_input, chunks, futures, returned,
                   callback, tracker_lock, extraction_step_lock, active_chunks,
                   results, all_extracted_data, remaining_futures, completed_count,
                   timed_out>>
    /\ UNCHANGED hangVars
    /\ UNCHANGED <<chunkVars, execVars, flowVars, detectVars, writeVars,
                   itemsVars, poolVars>>

\* lines 1018-1025: the finally clause clears extraction_steps under its lock
PipeFinally ==
    /\ ppc = "finally"
    /\ extraction_step_lock = "none"
    /\ extraction_steps' = {}
    /\ last_access' = Access("driver", "write", TRUE)
    /\ ppc' = "done"
    /\ UNCHANGED <<parallel, max_workers, pipe_input, chunks, futures, returned,
                   callback, tracker_lock, extraction_step_lock, active_chunks,
                   results, all_extracted_data, remaining_futures, completed_count,
                   timed_out, build_calls, pipe_error>>
    /\ UNCHANGED <<verbose_extraction, overdue, last_check>>
    /\ UNCHANGED notPipeVars

Workers ==
    \E i \in 1..MaxChunks :
       \/ WorkerStart(i) \/ WorkerStep(i) \/ WorkerOverdue(i) \/ WorkerFinish(i)
       \/ CallbackStore(i) \/ CallbackLock(i) \/ CallbackUpdate(i)
       \/ CallbackPrint(i)

NextPipe ==
    \/ PipeStart \/ PipeSequential \/ PipeSubmit
    \/ PipeWait \/ PipeHangLock \/ PipeCheckHangs \/ PipeGlobalTimeout
    \/ PipeCollect \/ PipeShutdown
    \/ PipeMergeAndBuild \/ PipeFinally
    \/ Workers

SpecPipe == InitPipe /\ [][NextPipe]_vars

(***************************************************************************)
(* Planner and workflow of the duplicate-resolution script:                *)
(* create_resolution_plan, and the paths of main and                       *)
(* interactive_duplicate_resolution from a plan in hand to the calls of    *)
(* execute_resolution_plan.  An absent group_id is the empty string.       *)
(***************************************************************************)
\* group_ids the LLM may write: none, a short one, one of 8 characters
LlmGroupIds == {"", "g1", "group-01"}

\* plan entries the LLM may write: with all lists, or lacking merge_operations
\* and post_merge_validation
LlmPlanEntries ==
    { [group_id |-> id, pre_merge_validation |-> List(<<"q">>),
       merge_operations |-> ops] :
        id \in LlmGroupIds, ops \in {Missing, List(<<"q">>)} }

\* sequences over S of length at most n
SeqsUpTo(S, n) == UNION { [1..k -> S] : k \in 0..n }

\* plans the LLM's JSON may hold
LlmPlans ==
    { [groups |-> gs, resolution_plan |-> ps] :
        gs \in SeqsUpTo({[group_id |-> id] : id \in LlmGroupIds}, MaxPlanGroups),
        ps \in SeqsUpTo(LlmPlanEntries, MaxPlanGroups) }

\* what chain.invoke may give: an exception, a text without JSON object, a
\* text whose JSON does not parse, or a text holding a plan
LlmPlanOutputs ==
    { [kind |-> k, plan |-> EmptyPlan] : k \in {"exception", "no_json", "bad_json"} }
       \cup { [kind |-> "json", plan |-> p] : p \in LlmPlans }

\* str(uuid.uuid4()) for the k-th group: a fresh 36-character string
Uuid4(k) == "uuid4-000" \o ToString(k)

\* line 858: not group.get("group_id") or len(group.get("group_id", "")) < 8
NeedsNewId(id) == id = "" \/ Len(id) < 8

\* lines 856-859: the group_id repair loop over the groups
RepairGroupIds(gs) ==
    [k \in DOMAIN gs |->
        IF NeedsNewId(gs[k].group_id)
        THEN [gs[k] EXCEPT !.group_id = Uuid4(k)]
        ELSE gs[k]]

\* lines 847-900: create_resolution_plan on the LLM's answer
create_resolution_plan(out) ==
    IF out.kind # "json" THEN EmptyPlan
    ELSE [out.plan EXCEPT !.groups = RepairGroupIds(@)]

\* lines 1090-1126: the plan entries execute_resolution_plan will run for the
\* argument group_idx (-1 stands for None)
EntriesToRun(plan, idx) ==
    IF plan.resolution_plan = <<>> THEN {}
    ELSE IF idx # -1
         THEN IF idx < 0 \/ idx >= Len(plan.groups) THEN {}
              ELSE {k \in DOMAIN plan.resolution_plan :
                      plan.resolution_plan[k].group_id = plan.groups[idx + 1].group_id}
         ELSE {k \in DOMAIN plan.resolution_plan :
                 \E g \in DOMAIN plan.groups :
                    plan.groups[g].group_id = plan.resolution_plan[k].group_id}

\* lines 1152-1156: the entries whose first pre-merge validation query is run
\* before any prompt
QueriesRun(plan, idx) ==
    {k \in EntriesToRun(plan, idx) :
        Get(plan.resolution_plan[k].pre_merge_validation).items # <<>>}

Paths == {"interactive", "load_plan", "analyze_labels", "entity_type"}

\* mutant of AsksToProceed: a failed backup is not looked at
AsksToProceed_Never(wanted, backup_success) == FALSE

\* lines 1608, 1520, 1675, 1720: if not backup_success, inside if backup_needed
AsksToProceed(wanted, backup_success) == wanted /\ ~backup_success

InitFlow ==
    /\ wpc = "start"
    /\ path \in Paths
    /\ flag_execute \in (IF path = "load_plan" THEN BOOLEAN ELSE {FALSE})
    /\ flag_backup \in (IF path = "load_plan" THEN BOOLEAN ELSE {FALSE})
    /\ flag_dry_run \in BOOLEAN
    /\ llm_output \in (IF path = "load_plan"
                       THEN {o \in LlmPlanOutputs : o.kind = "json"}
                       ELSE LlmPlanOutputs)
    /\ resolution_plan = EmptyPlan
    /\ backup_decision = "none"
    /\ backup_result = "none"
    /\ proceed_answer = "none"
    /\ next_group = 0
    /\ exec_calls = <<>>
    /\ MergeIdle
    /\ ChunkIdle
    /\ ExecIdle
    /\ PipeIdle
    /\ DetectIdle
    /\ WriteIdle
    /\ ItemsIdle
    /\ PoolIdle

\* lines 1587-1598 and 1622-1623: --load-plan reads the plan file; the plan
\* is executed on --execute or on a yes at the prompt
LoadPlan ==
    /\ wpc = "start"
    /\ path = "load_plan"
    /\ resolution_plan' = llm_output.plan
    /\ \E ans \in Answers :
          wpc' = IF flag_execute \/ Approves(ans) THEN "backup" ELSE "done"
    /\ UNCHANGED <<path, flag_execute, flag_backup, flag_dry_run, llm_output,
                   backup_decision, backup_result, proceed_answer, next_group,
                   exec_calls>>
    /\ UNCHANGED notFlowVars

\* lines 1490-1513: the interactive workflow creates the plan for the selected
\* groups, gives up on a plan without groups, and asks whether to execute
InteractivePlan ==
    /\ wpc = "start"
    /\ path = "interactive"
    /\ LET plan == create_resolution_plan(llm_output)
       IN /\ resolution_plan' = plan
          /\ \E ans \in Answers :
                wpc' = IF plan.groups = <<>> THEN "done"          \* line 1497
                       ELSE IF Approves(ans) THEN "backup" ELSE "done"
    /\ UNCHANGED <<path, flag_execute, flag_backup, flag_dry_run, llm_output,
                   backup_decision, backup_result, proceed_answer, next_group,
                   exec_calls>>
    /\ UNCHANGED notFlowVars

\* lines 1655-1671 and 1706-1716: --analyze-labels and --entity-type ask
\* whether to create a plan, create it, and ask whether to execute it now
AnalyzePlan ==
    /\ wpc = "start"
    /\ path \in {"analyze_labels", "entity_type"}
    /\ \E create_plan \in Answers, execute_now \in Answers :
          IF ~Approves(create_plan)
          THEN /\ wpc' = "done"
               /\ UNCHANGED resolution_plan
          ELSE /\ resolution_plan' = create_resolution_plan(llm_output)
               /\ wpc' = IF Approves(execute_now) THEN "backup" ELSE "done"
    /\ UNCHANGED <<path, flag_execute, flag_backup, flag_dry_run, llm_output,
                   backup_decision, backup_result, proceed_answer, next_group,
                   exec_calls>>
    /\ UNCHANGED notFlowVars

\* lines 1600-1607, 1516-1519, 1672-1674, 1717-1719 and 1044-1068: the backup
\* is decided by --backup (load-plan path only) or at the prompt, and
\* backup_neo4j_database is run; a missing script, a failing script and an
\* exception all give False
FlowBackup ==
    /\ wpc = "backup"
    /\ \E ans \in Answers, backup_success \in BOOLEAN :
          LET by_flag == path = "load_plan" /\ flag_backup
              wanted == by_flag \/ Approves(ans)
          IN /\ backup_decision' = IF by_flag THEN "flag"
                                   ELSE IF wanted THEN "yes" ELSE "no"
             /\ backup_result' = IF ~wanted THEN "none"
                                 ELSE IF backup_success THEN "ok" ELSE "failed"
             /\ wpc' = IF AsksToProceed(wanted, backup_success)
                       THEN "proceed" ELSE "execute"
    /\ UNCHANGED <<path, flag_execute, flag_backup, flag_dry_run, llm_output,
                   resolution_plan, proceed_answer, next_group, exec_calls>>
    /\ UNCHANGED notFlowVars

\* lines 1608-1612, 1520-1523, 1675-1679, 1720-1724: "Backup failed. Proceed
\* anyway?"
FlowProceed ==
    /\ wpc = "proceed"
    /\ \E ans \in Answers :
          /\ proceed_answer' = ans
          /\ wpc' = IF Approves(ans) THEN "execute" ELSE "done"
    /\ UNCHANGED <<path, flag_execute, flag_backup, flag_dry_run, llm_output,
                   resolution_plan, backup_decision, backup_result, next_group,
                   exec_calls>>
    /\ UNCHANGED notFlowVars

\* lines 1614-1625, 1681-1682, 1726-1727: the plan is executed as a whole
\* (group_idx None, written -1), unless --dry-run ends the load-plan path
FlowExecute ==
    /\ wpc = "execute"
    /\ path # "interactive"
    /\ exec_calls' = IF path = "load_plan" /\ flag_dry_run THEN exec_calls
                     ELSE Append(exec_calls, -1)
    /\ wpc' = "done"
    /\ UNCHANGED <<path, flag_execute, flag_backup, flag_dry_run, llm_output,
                   resolution_plan, backup_decision, backup_result, proceed_answer,
                   next_group>>
    /\ UNCHANGED notFlowVars

\* lines 1525-1537: the interactive workflow offers the groups one by one and
\* executes the plan for each group the operator accepts
FlowExecuteGroup ==
    /\ wpc = "execute"
    /\ path = "interactive"
    /\ IF next_group >= Len(resolution_plan.groups)
       THEN /\ wpc' = "done"
            /\ UNCHANGED <<next_group, exec_calls>>
       ELSE \E execute_group \in Answers :
               /\ exec_calls' = IF Approves(execute_group)
                                THEN Append(exec_calls, next_group)
                                ELSE exec_calls
               /\ next_group' = next_group + 1
               /\ UNCHANGED wpc
    /\ UNCHANGED <<path, flag_execute, flag_backup, flag_dry_run, llm_output,
                   resolution_plan, backup_decision, backup_result, proceed_answer>>
    /\ UNCHANGED notFlowVars

NextFlow ==
    \/ LoadPlan \/ InteractivePlan \/ AnalyzePlan
    \/ FlowBackup \/ FlowProceed
    \/ FlowExecute \/ FlowExecuteGroup

SpecFlow == InitFlow /\ [][NextFlow]_vars

(***************************************************************************)
(* Duplicate type detection: prefilter_duplicate_entity_types and          *)
(* identify_potential_duplicate_entity_types.  A label is the sequence of  *)
(* its characters, as the texts of the extraction worker are.              *)
(***************************************************************************)
MaxLabels == 3

\* the labels a graph may have: case variants of one word, its plural in two
\* spellings, and an unrelated label
LabelPool ==
    { <<"P", "n">>, <<"p", "n">>, <<"P", "N">>,
      <<"P", "n", "s">>, <<"p", "n", "S">>, <<"V">> }

\* str.lower() on one character
LowerChar(c) ==
    CASE c = "P" -> "p" [] c = "N" -> "n" [] c = "S" -> "s" [] c = "V" -> "v"
      [] OTHER -> c

\* lines 465, 491: label.lower()
lowercase(label) == [i \in DOMAIN label |-> LowerChar(label[i])]

\* mutant of Variants: a label replaces the entry of its key instead of
\* being appended to it
Variants_Overwrites(labels, key) ==
    LET all == SelectSeq(labels, LAMBDA m : lowercase(m) = key)
    IN << all[Len(all)] >>

\* lines 463-469: label_map[lowercase], the labels with one lower-case form
\* in the order of the list
Variants(labels, key) == SelectSeq(labels, LAMBDA m : lowercase(m) = key)

\* lines 472-484: one group per key of label_map with more than one variant,
\* in the insertion order of the keys
RECURSIVE CaseGroups(_, _, _)
CaseGroups(labels, i, reasoning) ==
    IF i > Len(labels) THEN <<>>
    ELSE LET key == lowercase(labels[i])
             first == \A j \in 1..(i - 1) : lowercase(labels[j]) # key
             variants == Variants(labels, key)
         IN (IF first /\ Len(variants) > 1
             THEN << [duplicate_types |-> variants, reasoning |-> reasoning] >>
             ELSE <<>>)
            \o CaseGroups(labels, i + 1, reasoning)

\* line 491: one label is the other with an 's' appended, ignoring case
IsPlural(label1, label2) ==
    \/ lowercase(label1) \o <<"s">> = lowercase(label2)
    \/ lowercase(label2) \o <<"s">> = lowercase(label1)

\* lines 487-492: singular_plural_pairs, filled by the two nested loops
RECURSIVE singular_plural_pairs(_, _, _)
singular_plural_pairs(labels, i, j) ==
    IF i > Len(labels) THEN <<>>
    ELSE IF j > Len(labels) THEN singular_plural_pairs(labels, i + 1, 1)
    ELSE (IF labels[i] # labels[j] /\ IsPlural(labels[i], labels[j])
          THEN << <<labels[i], labels[j]>> >>
          ELSE <<>>)
         \o singular_plural_pairs(labels, i, j + 1)

\* lines 495-506: one group per pair
PluralGroups(labels) ==
    LET pairs == singular_plural_pairs(labels, 1, 1)
    IN [k \in DOMAIN pairs |->
           [duplicate_types |-> pairs[k], reasoning |-> "singular/plural"]]

\* lines 457-509
prefilter_duplicate_entity_types(labels) ==
    CaseGroups(labels, 1, "case") \o PluralGroups(labels)

\* lines 384-388: two groups count as the same when their members intersect
is_duplicate_group(group1, group2) ==
    Range(group1.duplicate_types) \cap Range(group2.duplicate_types) # {}

\* lines 391-393: every LLM group that no group of the list covers is appended
RECURSIVE Combine(_, _)
Combine(all, llm) ==
    IF llm = <<>> THEN all
    ELSE Combine(IF \E k \in DOMAIN all : is_duplicate_group(Head(llm), all[k])
                 THEN all
                 ELSE Append(all, Head(llm)),
                 Tail(llm))

\* db.labels(): lists of distinct labels
RECURSIVE LabelLists(_)
LabelLists(n) ==
    IF n = 0 THEN { <<>> }
    ELSE LET shorter == LabelLists(n - 1)
         IN shorter \cup
            { Append(ls, l) : ls \in {x \in shorter : Len(x) = n - 1},
                              l \in LabelPool }

DistinctLabelLists ==
    { ls \in LabelLists(MaxLabels) :
         \A i, j \in DOMAIN ls : i # j => ls[i] # ls[j] }

\* the member lists an LLM group may have
LlmTypeLists ==
    { << <<"P", "n">>, <<"p", "n">> >>,
      << <<"p", "n">>, <<"V">> >>,
      << <<"P", "n", "s">>, <<"V">> >>,
      <<>> }

\* lines 323-348: the LLM answer is a JSON list of groups, or it does not
\* parse, or the chain raises
LlmAnswers ==
    { [kind |-> k, groups |-> <<>>] : k \in {"exception", "no_json", "bad_json"} }
    \cup
    { [kind |-> "json",
       groups |-> [k \in DOMAIN ts |->
                      [duplicate_types |-> ts[k], reasoning |-> "llm"]]] :
      ts \in SeqsUpTo(LlmTypeLists, MaxPlanGroups) }

InitDetect ==
    /\ dpc = "start"
    /\ node_labels \in DistinctLabelLists
    /\ llm_answer \in LlmAnswers
    /\ rule_based_duplicates = <<>>
    /\ llm_duplicates = <<>>
    /\ all_duplicates = NotReturned
    /\ MergeIdle
    /\ ChunkIdle
    /\ ExecIdle
    /\ PipeIdle
    /\ FlowIdle
    /\ WriteIdle
    /\ ItemsIdle
    /\ PoolIdle

\* lines 221-228: with no label or one label nothing is analysed
DetectNoLabels ==
    /\ dpc = "start"
    /\ Len(node_labels) <= 1
    /\ all_duplicates' = <<>>
    /\ dpc' = "done"
    /\ UNCHANGED <<node_labels, llm_answer, rule_based_duplicates, llm_duplicates>>
    /\ UNCHANGED notDetectVars

\* line 233: the rule-based prefilter
DetectPrefilter ==
    /\ dpc = "start"
    /\ Len(node_labels) > 1
    /\ rule_based_duplicates' = prefilter_duplicate_entity_types(node_labels)
    /\ dpc' = "prefiltered"
    /\ UNCHANGED <<node_labels, llm_answer, llm_duplicates, all_duplicates>>
    /\ UNCHANGED notDetectVars

\* lines 320-351: the LLM analysis; llm_duplicates stays [] unless the answer
\* parses
DetectLlm ==
    /\ dpc = "prefiltered"
    /\ llm_duplicates' = IF llm_answer.kind = "json" THEN llm_answer.groups
                         ELSE <<>>
    /\ dpc' = "analysed"
    /\ UNCHANGED <<node_labels, llm_answer, rule_based_duplicates, all_duplicates>>
    /\ UNCHANGED notDetectVars

\* lines 354-381: neither strategy found a group: the case test is repeated
\* and its groups are returned
DetectFallback ==
    /\ dpc = "analysed"
    /\ llm_duplicates = <<>> /\ rule_based_duplicates = <<>>
    /\ rule_based_duplicates' =
          rule_based_duplicates \o CaseGroups(node_labels, 1, "fallback")
    /\ all_duplicates' = rule_based_duplicates'
    /\ dpc' = "done"
    /\ UNCHANGED <<node_labels, llm_answer, llm_duplicates>>
    /\ UNCHANGED notDetectVars

\* lines 383-399: the groups of both strategies are combined and returned
DetectCombine ==
    /\ dpc = "analysed"
    /\ ~(llm_duplicates = <<>> /\ rule_based_duplicates = <<>>)
    /\ all_duplicates' = Combine(rule_based_duplicates, llm_duplicates)
    /\ dpc' = "done"
    /\ UNCHANGED <<node_labels, llm_answer, rule_based_duplicates, llm_duplicates>>
    /\ UNCHANGED notDetectVars

NextDetect ==
    \/ DetectNoLabels
    \/ DetectPrefilter
    \/ DetectLlm
    \/ DetectFallback
    \/ DetectCombine

SpecDetect == InitDetect /\ [][NextDetect]_vars

(***************************************************************************)
(* Graph Writer: build_graph.                                              *)
(***************************************************************************)
MaxWriteItems == 2

\* a key the dict does not have
NoKey == "<no key>"

\* dict.get(key, "") on a string field
GetStr(v) == IF v = NoKey THEN "" ELSE v

\* entities of a delta: with an id, and without the key
WriteEntities ==
    { [id |-> "a",   type |-> <<NoKey>>, name |-> "n1"],
      [id |-> NoKey, type |-> <<NoKey>>, name |-> NoKey] }

\* relationships of a delta: complete, with an empty source, without target,
\* without source and with an empty target
WriteRelationships ==
    { [source |-> "a",   target |-> "b",   type |-> <<NoKey>>],
      [source |-> "",    target |-> "b",   type |-> <<NoKey>>],
      [source |-> "a",   target |-> NoKey, type |-> <<NoKey>>],
      [source |-> NoKey, target |-> "",    type |-> <<NoKey>>] }

\* lines 359-364: "if not source_id or not target_id: continue"
HasEnds(rel) == GetStr(rel.source) # "" /\ GetStr(rel.target) # ""

\* the graph without nodes and relationships
EmptyStore == [nodes |-> <<>>, rels |-> <<>>]

\* str.isalnum() on one character of the type names used here
IsAlnum(c) == c \in {"T", "x", "X", "r", "R", "E", "L"}

\* str.upper() on one character
UpperChar(c) == CASE c = "r" -> "R" [] c = "x" -> "X" [] OTHER -> c

\* line 340: entity.get("type", "Entity"), the default written E
EntityType(entity) == IF entity.type = <<NoKey>> THEN <<"E">> ELSE entity.type

\* line 342: every character that is not alphanumeric becomes "_"
entity_type(entity) ==
    LET t == EntityType(entity)
    IN [i \in DOMAIN t |-> IF IsAlnum(t[i]) THEN t[i] ELSE "_"]

\* line 367: rel.get("type", "RELATED_TO"), the default written RL
RelType(rel) == IF rel.type = <<NoKey>> THEN <<"R", "L">> ELSE rel.type

\* lines 367-368: upper case, blanks and every other character that is
\* neither alphanumeric nor "_" become "_"
rel_type(rel) ==
    LET t == RelType(rel)
        u == [i \in DOMAIN t |-> IF t[i] = " " THEN "_" ELSE UpperChar(t[i])]
    IN [i \in DOMAIN u |-> IF IsAlnum(u[i]) \/ u[i] = "_" THEN u[i] ELSE "_"]

\* mutant of MergeNode: CREATE instead of MERGE
MergeNode_Creates(store, label, id, name) ==
    [store EXCEPT !.nodes = Append(@, [label |-> label, id |-> id, name |-> name])]

\* lines 344-347: MERGE (e:label {id: $id}) SET e += $properties: the nodes
\* with this label and id get the properties, and one is created if none is
MergeNode(store, label, id, name) ==
    LET found == {k \in DOMAIN store.nodes :
                     store.nodes[k].label = label /\ store.nodes[k].id = id}
    IN IF found = {}
       THEN [store EXCEPT
               !.nodes = Append(@, [label |-> label, id |-> id, name |-> name])]
       ELSE [store EXCEPT
               !.nodes = [k \in DOMAIN @ |->
                            IF k \in found THEN [@[k] EXCEPT !.name = name]
                            ELSE @[k]]]

\* lines 381-382: the pairs (source node, target node) the two MATCH clauses
\* produce; a node is matched by its id, whatever its label
RECURSIVE MatchPairs(_, _, _, _, _)
MatchPairs(store, source_id, target_id, i, j) ==
    IF i > Len(store.nodes) THEN <<>>
    ELSE IF j > Len(store.nodes)
         THEN MatchPairs(store, source_id, target_id, i + 1, 1)
    ELSE (IF store.nodes[i].id = source_id /\ store.nodes[j].id = target_id
          THEN << <<i, j>> >> ELSE <<>>)
         \o MatchPairs(store, source_id, target_id, i, j + 1)

\* line 383: MERGE (source)-[r:type]->(target) for every matched pair: a
\* relationship is created where none of this type joins the pair
RECURSIVE MergeRels(_, _, _)
MergeRels(rels, pairs, type) ==
    IF pairs = <<>> THEN rels
    ELSE LET r == [source |-> Head(pairs)[1], type |-> type,
                   target |-> Head(pairs)[2]]
         IN MergeRels(IF \E k \in DOMAIN rels : rels[k] = r THEN rels
                      ELSE Append(rels, r),
                      Tail(pairs), type)

\* lines 380-392: the relationship query
MergeRelationship(store, source_id, type, target_id) ==
    [store EXCEPT
       !.rels = MergeRels(@, MatchPairs(store, source_id, target_id, 1, 1), type)]

\* mutant of AfterWrite: a failed write leaves build_graph
AfterWrite_Raises(ok, pc) == IF ok THEN pc ELSE "raised"

\* lines 349-355, 387-394: an exception of graph.query is caught and printed,
\* the loop goes on
AfterWrite(ok, pc) == pc

InitWrite ==
    /\ bpc = "start"
    /\ clear_existing \in BOOLEAN
    /\ graph_delta \in [entities : SeqsUpTo(WriteEntities, MaxWriteItems),
                        relationships : SeqsUpTo(WriteRelationships, MaxWriteItems)]
    /\ item_idx = 0
    /\ graph_queries = <<>>
    /\ graph_store = EmptyStore
    /\ write_run = 1
    /\ store_after_first = EmptyStore
    /\ MergeIdle
    /\ ChunkIdle
    /\ ExecIdle
    /\ PipeIdle
    /\ FlowIdle
    /\ DetectIdle
    /\ ItemsIdle
    /\ PoolIdle

\* lines 325-326: the graph is wiped if requested; this query is not inside a
\* try, so its exception leaves build_graph
WriteClear ==
    /\ bpc = "start"
    /\ IF clear_existing
       THEN \E ok \in BOOLEAN :
               /\ graph_queries' = Append(graph_queries,
                                      [kind |-> "clear", item |-> 0, ok |-> ok])
               /\ bpc' = IF ok THEN "entities" ELSE "raised"
               /\ graph_store' = IF ok THEN EmptyStore ELSE graph_store
       ELSE /\ bpc' = "entities"
            /\ UNCHANGED <<graph_queries, graph_store>>
    /\ UNCHANGED <<clear_existing, graph_delta, item_idx, write_run,
                   store_after_first>>
    /\ UNCHANGED notWriteVars

\* lines 329-355: one MERGE per entity
WriteEntity ==
    /\ bpc = "entities"
    /\ item_idx < Len(graph_delta.entities)
    /\ \E ok \in BOOLEAN :
          /\ graph_queries' =
                Append(graph_queries,
                   [kind |-> "entity", item |-> item_idx + 1, ok |-> ok])
          /\ bpc' = AfterWrite(ok, "entities")
          /\ graph_store' =
                IF ok
                THEN LET entity == graph_delta.entities[item_idx + 1]
                     IN MergeNode(graph_store, entity_type(entity),
                                  GetStr(entity.id), GetStr(entity.name))
                ELSE graph_store
    /\ item_idx' = item_idx + 1
    /\ UNCHANGED <<clear_existing, graph_delta, write_run, store_after_first>>
    /\ UNCHANGED notWriteVars

\* the entity loop is exhausted
WriteEntitiesEnd ==
    /\ bpc = "entities"
    /\ item_idx = Len(graph_delta.entities)
    /\ bpc' = "relationships"
    /\ item_idx' = 0
    /\ UNCHANGED <<clear_existing, graph_delta, graph_queries, graph_store,
                   write_run, store_after_first>>
    /\ UNCHANGED notWriteVars

\* lines 358-394: a relationship without source or target is skipped, the
\* others get one MATCH/MERGE
WriteRelationship ==
    /\ bpc = "relationships"
    /\ item_idx < Len(graph_delta.relationships)
    /\ LET rel == graph_delta.relationships[item_idx + 1]
       IN IF ~HasEnds(rel)
          THEN UNCHANGED <<graph_queries, bpc, graph_store>>
          ELSE \E ok \in BOOLEAN :
                  /\ graph_queries' =
                        Append(graph_queries,
                           [kind |-> "relationship", item |-> item_idx + 1,
                            ok |-> ok])
                  /\ bpc' = AfterWrite(ok, "relationships")
                  /\ graph_store' =
                        IF ok
                        THEN MergeRelationship(graph_store, GetStr(rel.source),
                                               rel_type(rel), GetStr(rel.target))
                        ELSE graph_store
    /\ item_idx' = item_idx + 1
    /\ UNCHANGED <<clear_existing, graph_delta, write_run, store_after_first>>
    /\ UNCHANGED notWriteVars

\* the relationship loop is exhausted: build_graph returns
WriteEnd ==
    /\ bpc = "relationships"
    /\ item_idx = Len(graph_delta.relationships)
    /\ bpc' = "done"
    /\ UNCHANGED <<clear_existing, graph_delta, item_idx, graph_queries,
                   graph_store, write_run, store_after_first>>
    /\ UNCHANGED notWriteVars

NextWrite ==
    \/ WriteClear
    \/ WriteEntity
    \/ WriteEntitiesEnd
    \/ WriteRelationship
    \/ WriteEnd

SpecWrite == InitWrite /\ [][NextWrite]_vars

(***************************************************************************)
(* The Graph Writer applied twice to one graph.                            *)
(***************************************************************************)
\* entities whose types differ as written and agree after line 342, an
\* entity without keys and one of the default type
StoreEntities ==
    { [id |-> "a",   type |-> <<"T", " ">>, name |-> "n1"],
      [id |-> "a",   type |-> <<"T", "_">>, name |-> "n2"],
      [id |-> "b",   type |-> <<NoKey>>,    name |-> "n1"],
      [id |-> NoKey, type |-> <<NoKey>>,    name |-> NoKey] }

\* relationships whose types differ as written and agree after lines 367-368,
\* a loop and one without source
StoreRelationships ==
    { [source |-> "a", target |-> "b", type |-> <<"r", " ">>],
      [source |-> "a", target |-> "b", type |-> <<"R", "_">>],
      [source |-> "a", target |-> "a", type |-> <<NoKey>>],
      [source |-> "",  target |-> "b", type |-> <<NoKey>>] }

\* the graph before the first call: empty, or with nodes of other labels
\* that have the ids of entities
StoresBefore ==
    { EmptyStore,
      [nodes |-> << [label |-> <<"x">>, id |-> "a", name |-> "n0"],
                    [label |-> <<"x">>, id |-> "b", name |-> "n0"] >>,
       rels |-> <<>>] }

\* deltas with at most MaxWriteItems items in all
StoreDeltas ==
    { d \in [entities : SeqsUpTo(StoreEntities, MaxWriteItems),
             relationships : SeqsUpTo(StoreRelationships, MaxWriteItems)] :
         Len(d.entities) + Len(d.relationships) <= MaxWriteItems }

InitStore ==
    /\ bpc = "start"
    /\ clear_existing \in BOOLEAN
    /\ graph_delta \in StoreDeltas
    /\ item_idx = 0
    /\ graph_queries = <<>>
    /\ graph_store \in StoresBefore
    /\ write_run = 1
    /\ store_after_first = EmptyStore
    /\ MergeIdle
    /\ ChunkIdle
    /\ ExecIdle
    /\ PipeIdle
    /\ FlowIdle
    /\ DetectIdle
    /\ ItemsIdle
    /\ PoolIdle

\* the caller runs the import again: build_graph is called a second time with
\* the same delta on the graph the first call left
WriteAgain ==
    /\ bpc = "done"
    /\ write_run = 1
    /\ write_run' = 2
    /\ store_after_first' = graph_store
    /\ bpc' = "start"
    /\ item_idx' = 0
    /\ UNCHANGED <<clear_existing, graph_delta, graph_queries, graph_store>>
    /\ UNCHANGED notWriteVars

NextStore ==
    \/ NextWrite
    \/ WriteAgain

SpecStore == InitStore /\ [][NextStore]_vars

(***************************************************************************)
(* Specification of the Result Merger.                                     *)
(***************************************************************************)
InitMerge == /\ data_list = <<>>
             /\ merged_data = NotReturned
             /\ mpc = "ready"
             /\ ChunkIdle
             /\ ExecIdle
             /\ PipeIdle
             /\ FlowIdle
             /\ DetectIdle
             /\ WriteIdle
             /\ ItemsIdle
             /\ PoolIdle

\* the caller collects one more per-chunk dict (all_extracted_data.append)
AppendChunk == /\ mpc = "ready"
               /\ Len(data_list) < MaxChunks
               /\ \E e \in 0..(MaxItems - ItemCount(data_list)) :
                    \E r \in 0..(MaxItems - ItemCount(data_list) - e) :
                       \E c \in ChunkDicts(e, r) :
                          data_list' = Append(data_list, c)
               /\ UNCHANGED <<merged_data, mpc>>
               /\ UNCHANGED notMergeVars

\* the call merge_extracted_data(data_list)
MergeCall == /\ mpc = "ready"
             /\ merged_data' = merge_extracted_data(data_list)
             /\ mpc' = "merged"
             /\ UNCHANGED data_list
             /\ UNCHANGED notMergeVars

NextMerge == AppendChunk \/ MergeCall

SpecMerge == InitMerge /\ [][NextMerge]_vars

(***************************************************************************)
(* Claims about the Result Merger.                                         *)
(***************************************************************************)
Triple(rel) == <<rel.source, rel.type, rel.target>>

\* least position of an entity with this id in the flattened input
FirstEntityPos(all, id) ==
    CHOOSE k \in DOMAIN all :
        /\ all[k].id = id
        /\ \A j \in DOMAIN all : all[j].id = id => k <= j

\* C1: the merged entity list holds every input entity id exactly once, and
\* the copy kept for an id is its first occurrence in list (chunk) order.
C1_EntitiesOncePerIdFirstWins ==
    mpc = "merged" =>
        LET all == AllEntities(data_list)
            out == merged_data.entities
        IN /\ \A i, j \in DOMAIN out : i # j => out[i].id # out[j].id
           /\ \A k \in DOMAIN all : \E i \in DOMAIN out : out[i].id = all[k].id
           /\ \A i \in DOMAIN out :
                 /\ \E k \in DOMAIN all : all[k].id = out[i].id
                 /\ out[i] = all[FirstEntityPos(all, out[i].id)]

\* C1 witness: an id occurs in two chunks with different copies and the
\* merge has run.
C1_Witness ==
    /\ mpc = "merged"
    /\ Len(data_list) = 2
    /\ \E i \in DOMAIN data_list[1].entities, j \in DOMAIN data_list[2].entities :
          /\ data_list[1].entities[i].id = data_list[2].entities[j].id
          /\ data_list[1].entities[i] # data_list[2].entities[j]

\* C2 (as stated): a relationship triple that occurs more than once in the
\* input survives exactly once, as its first occurrence.
C2_RepeatedTripleSurvivesOnce ==
    mpc = "merged" =>
        LET all == AllRelationships(data_list)
            out == merged_data.relationships
        IN \A k, l \in DOMAIN all :
              (k < l /\ Triple(all[k]) = Triple(all[l])
                     /\ \A j \in 1..(k - 1) : Triple(all[j]) # Triple(all[k]))
              => /\ Cardinality({i \in DOMAIN out : Triple(out[i]) = Triple(all[k])}) = 1
                 /\ \E i \in DOMAIN out : out[i] = all[k]

\* C3 (as stated): a relationship whose triple differs from the triple of
\* every relationship before it is kept.
C3_NewTripleIsKept ==
    mpc = "merged" =>
        LET all == AllRelationships(data_list)
            out == merged_data.relationships
        IN \A k \in DOMAIN all :
              (\A j \in 1..(k - 1) : Triple(all[j]) # Triple(all[k]))
              => \E i \in DOMAIN out : out[i] = all[k]

(***************************************************************************)
(* Claims about the Extraction Worker.                                     *)
(***************************************************************************)
\* an attempt that yields no usable result: timeout, LLM exception, no JSON
\* object between the first "{" and the last "}" (also after the repair of
\* trailing commas), or an object whose entities cannot be counted
AttemptFails(o) ==
    \/ o.kind \in {"timeout", "error"}
    \/ /\ o.kind = "text"
       /\ LET braced == Slice(o.text, Find(o.text, "{"), RFind(o.text, "}") + 1) IN
          \/ Find(o.text, "{") = -1
          \/ ~JsonValid(braced) /\ ~JsonValid(FixTrailingCommas(braced))
          \/ JsonValid(braced) /\ JsonData(braced).entities = NonList

\* C5: the extraction never raises, invokes the LLM at most max_attempts
\* times, and returns the empty result when every attempt failed.
C5_ExtractionNeverRaises ==
    /\ cpc # "ex_raised"
    /\ llm_calls <= max_attempts
    /\ (cpc = "ex_returned" /\ \A i \in DOMAIN outcomes : AttemptFails(outcomes[i]))
          => ex_result = EmptyResult

\* C5 witness: two attempts, a timeout and then unrepairable JSON, and the
\* extraction has returned the empty result.
C5_Witness ==
    /\ cpc = "ex_returned"
    /\ max_attempts = 2
    /\ llm_calls = 2
    /\ outcomes = << [kind |-> "timeout", text |-> <<>>],
                     [kind |-> "text", text |-> <<"{", "x", "}">>] >>
    /\ ex_result = EmptyResult

\* a well-formed result with at least one entity or relationship
NonEmptyResult(d) ==
    /\ Get(d.entities).kind = "list"
    /\ Get(d.relationships).kind = "list"
    /\ Len(Get(d.entities).items) + Len(Get(d.relationships).items) > 0

C6_FailedReached ==
    /\ caller = "process_chunk"
    /\ cpc = "pc_returned"
    /\ chunk_result = PyNone
    /\ max_retries = 2

(***************************************************************************)
(* Claims about the pipeline driver.                                       *)
(***************************************************************************)
\* chunk i failed permanently: process_chunk returned None
FailedPermanently(i) == returned[i] = PyNone

\* the results of the chunks that succeeded, by ascending chunk index
RECURSIVE SucceededInOrder(_)
SucceededInOrder(rs) ==
    IF rs = <<>> THEN <<>>
    ELSE IF Truthy(Head(rs)) THEN <<Head(rs).data>> \o SucceededInOrder(Tail(rs))
         ELSE SucceededInOrder(Tail(rs))

\* C4: when a run over a document has ended and chunk i failed permanently,
\* every other chunk reached its own outcome, the run went on to the merge
\* step, and chunk i contributed nothing to the merge input.
C4_ChunkFailureDoesNotAbort ==
    (ppc = "done" /\ pipe_input = "document" /\ ~timed_out) =>
       \A i \in 1..chunks :
          FailedPermanently(i) =>
             /\ \A j \in 1..chunks : returned[j] # Pending
             /\ mpc = "merged"
             /\ ChunkData(i) \notin Range(all_extracted_data)

\* C7: in parallel mode every filled slot holds the result of its own chunk,
\* and the list collected for the merger is the results of the chunks that
\* succeeded in ascending chunk index, whatever the order of completion.
C7_MergeInputInChunkOrder ==
    /\ \A i \in DOMAIN results : results[i] \in {PyNone, returned[i]}
    /\ (parallel /\ pipe_input = "document" /\ ~timed_out
          /\ ppc \in {"shutdown", "merge", "finally", "done"}) =>
          all_extracted_data = SucceededInOrder(returned)

\* C8: a run that connected and obtained at least one non-empty result (from
\* a chunk or from the cache) has, when it ends, called merge_extracted_data
\* on the collected results and build_graph exactly once.
C8_MergeThenBuildOnce ==
    (/\ ppc = "done"
     /\ \/ pipe_input = "cache"
        \/ pipe_input = "document" /\ \E i \in 1..chunks : Truthy(returned[i])) =>
       /\ mpc = "merged"
       /\ data_list = all_extracted_data
       /\ build_calls = 1

\* C22: every chunk that had been executing for longer than the hang
\* threshold when check_for_hangs ran was reported by that check, and the
\* check changes neither a future nor the state of a chunk.
C22_HangCheckReportsOverdue ==
    /\ [](last_check.overdue \subseteq last_check.reported)
    /\ [][(ppc = "check_for_hangs" /\ ppc' = "timeout_test") =>
             /\ futures' = futures
             /\ returned' = returned
             /\ active_chunks' = active_chunks
             /\ extraction_steps' = extraction_steps]_vars

\* C23: every read and every write of the chunk-status map is made by a thread
\* that holds extraction_step_lock.
C23_MapAccessUnderLock == last_access.locked

\* C27: the driver and a completion callback never each hold one of the two
\* locks while waiting for the other: the driver inside check_for_hangs with
\* extraction_step_lock, the callback inside update with ProgressTracker.lock.
C27_NoLockCycle ==
    ~(/\ ppc = "check_for_hangs"
      /\ extraction_step_lock = "driver"
      /\ tracker_lock = "callback"
      /\ \E i \in DOMAIN callback : callback[i] = "updating")

\* C28: in parallel mode without the global timeout, once the driver has left
\* the wait loop and collected the slots, the collected list holds the result
\* of every chunk whose process_chunk returned a non-empty result.
C28_NoResultLost ==
    (/\ parallel /\ pipe_input = "document" /\ ~timed_out
     /\ ppc \in {"shutdown", "merge", "finally", "done"}) =>
       \A i \in 1..chunks :
          Truthy(returned[i]) => returned[i].data \in Range(all_extracted_data)

(***************************************************************************)
(* Claims about the planner and the workflow.                              *)
(***************************************************************************)
\* the ResolutionPlan invariant: every plan entry's group_id names a group
PlanInvariant(plan) ==
    \A k \in DOMAIN plan.resolution_plan :
       \E g \in DOMAIN plan.groups :
          plan.groups[g].group_id = plan.resolution_plan[k].group_id

\* every plan entry carries a group_id
EntriesHaveIds(plan) ==
    \A k \in DOMAIN plan.resolution_plan : plan.resolution_plan[k].group_id # ""

\* C14: the plan returned by create_resolution_plan satisfies the
\* ResolutionPlan invariant; in particular, when the LLM's JSON parses and
\* its plan entries all reference group_ids of its groups, the returned plan
\* (after the group_id repair) still does.
C14_RepairKeepsPlanInvariant ==
    (/\ path # "load_plan"
     /\ llm_output.kind = "json"
     /\ EntriesHaveIds(llm_output.plan)
     /\ PlanInvariant(llm_output.plan)) => PlanInvariant(resolution_plan)

\* the LLM's answer holds no JSON that parses
Unparseable(out) == out.kind \in {"no_json", "bad_json"}

\* the LLM's plan lacks a required field: a group or a plan entry without
\* group_id, or a plan entry without merge_operations
Incomplete(out) ==
    /\ out.kind = "json"
    /\ \/ \E g \in DOMAIN out.plan.groups : out.plan.groups[g].group_id = ""
       \/ \E k \in DOMAIN out.plan.resolution_plan :
             \/ out.plan.resolution_plan[k].group_id = ""
             \/ out.plan.resolution_plan[k].merge_operations = Missing

\* C15: when the LLM's plan JSON is unparseable or incomplete the whole plan
\* is discarded: the plan in hand is the empty plan and no call of
\* execute_resolution_plan runs a query of it.
C15_BadPlanIsDiscarded ==
    (path # "load_plan" /\ (Unparseable(llm_output) \/ Incomplete(llm_output))) =>
       /\ resolution_plan = EmptyPlan
       /\ \A c \in DOMAIN exec_calls : QueriesRun(resolution_plan, exec_calls[c]) = {}

\* the backup step was decided by the operator before any execution
BackupDecided ==
    exec_calls # <<>> =>
       /\ backup_decision \in {"flag", "yes", "no"}
       /\ backup_result = "none" <=> backup_decision = "no"

\* C16 (as stated): the backup step is never skipped without an operator
\* decision, and after a failed backup no query of the plan is run unless
\* the operator answered 'y' to "Proceed anyway?".
C16_FailedBackupNeedsY ==
    /\ BackupDecided
    /\ (/\ backup_result = "failed"
        /\ \E c \in DOMAIN exec_calls : QueriesRun(resolution_plan, exec_calls[c]) # {})
          => proceed_answer = "y"

\* C16 (amended): the backup step is never skipped without an operator
\* decision, and after a failed backup execute_resolution_plan is not called
\* unless the operator answered 'y' or 'Y' to "Proceed anyway?".
C16_FailedBackupNeedsYes ==
    /\ BackupDecided
    /\ (backup_result = "failed" /\ exec_calls # <<>>) => SaidYes(proceed_answer)

\* a backup failed, the operator chose to proceed, and the plan's queries run
C16_Witness ==
    /\ backup_result = "failed"
    /\ SaidYes(proceed_answer)
    /\ exec_calls # <<>>
    /\ QueriesRun(resolution_plan, exec_calls[1]) # {}

(***************************************************************************)
(* Claims about the Duplicate Resolution Engine.                           *)
(***************************************************************************)
\* the plan entries whose group was found (the others are skipped at line 1133)
Executed(i) == plans[i].group_id \in Range(groups)

\* position of plan entry i's result in execution_results["group_results"]
ResultIdx(i) == Cardinality({k \in 1..i : Executed(k)})

\* plan entry i's result has been appended to the report
Recorded(i) == Executed(i) /\ ResultIdx(i) <= Len(execution_results.group_results)

\* the status of plan entry i's group, in the report or still in progress
StatusOf(i) ==
    IF Recorded(i) THEN execution_results.group_results[ResultIdx(i)].status
    ELSE group_result.status

\* positions in the query log of plan entry i's queries of one stage
QueriesOf(i, stage) ==
    {k \in DOMAIN queries : queries[k].plan = i /\ queries[k].stage = stage}

\* query (i, stage, j) was executed without error
Succeeded(i, stage, j) ==
    \E k \in QueriesOf(i, stage) : queries[k].step = j /\ queries[k].success

\* the operator answered prompt (i, stage, j) with a yes
Approved(i, stage, j) ==
    \E k \in DOMAIN prompts :
       /\ prompts[k].plan = i /\ prompts[k].stage = stage
       /\ prompts[k].step = j /\ prompts[k].yes

\* C9: for every group the stages run in the order pre-validation, merge,
\* post-validation: a merge operation query is executed only after every
\* pre-merge validation of the group was executed without error and approved;
\* a post-merge validation query only after every merge operation of the group
\* was executed without error; and the status is 'success' only when all
\* post-merge validations were executed without error and approved.
C9_StagesInOrder ==
    \A i \in 1..Len(plans) :
       /\ \A a \in QueriesOf(i, "pre"), b \in QueriesOf(i, "op") : a < b
       /\ \A a \in QueriesOf(i, "pre") \cup QueriesOf(i, "op"),
             b \in QueriesOf(i, "post") : a < b
       /\ QueriesOf(i, "op") # {} =>
             \A j \in 1..plans[i].pre :
                Succeeded(i, "pre", j) /\ Approved(i, "pre", j)
       /\ QueriesOf(i, "post") # {} =>
             /\ \A j \in 1..plans[i].pre :
                   Succeeded(i, "pre", j) /\ Approved(i, "pre", j)
             /\ \A j \in 1..Len(plans[i].ops) : Succeeded(i, "op", j)
       /\ (Executed(i) /\ StatusOf(i) = "success") =>
             /\ \A j \in 1..plans[i].pre :
                   Succeeded(i, "pre", j) /\ Approved(i, "pre", j)
             /\ \A j \in 1..Len(plans[i].ops) : Succeeded(i, "op", j)
             /\ \A j \in 1..plans[i].post :
                   Succeeded(i, "post", j) /\ Approved(i, "post", j)

\* a group went through all three stages and was reported a success
C9_Witness ==
    \E i \in 1..Len(plans) :
       /\ Recorded(i) /\ StatusOf(i) = "success"
       /\ plans[i].pre >= 1 /\ Len(plans[i].ops) >= 1 /\ plans[i].post >= 1
       /\ execution_results.successful_groups >= 1

\* a group whose pre-merge validation was turned down at prompt k: its status,
\* the queries executed for it afterwards, and how it is counted
RejectedAtPrompt(k) ==
    LET i == prompts[k].plan
        j == prompts[k].step
    IN /\ StatusOf(i) = "pre_validation_rejected"
       /\ \A q \in DOMAIN queries :
             queries[q].plan = i => queries[q].stage = "pre" /\ queries[q].step <= j
       /\ plans[i].pre = j /\ plans[i].ops = <<>> /\ plans[i].post = 0
       /\ (xpc \in {"next_plan", "report", "done"} \/ i < Len(plans)) =>
             /\ Recorded(i)
             /\ execution_results.skipped_groups =
                   Cardinality({r \in DOMAIN execution_results.group_results :
                      execution_results.group_results[r].status \in
                         {"pre_validation_failed", "pre_validation_rejected"}})
             /\ execution_results.skipped_groups >= 1

\* C10 (as stated): whenever the operator answers anything other than 'y' to
\* a pre-merge validation prompt, the group's status is
\* 'pre_validation_rejected', no further query of the group is executed and
\* the group is counted as skipped.  Stated on the latest prompt, whose answer
\* is last_answer.
C10_AnswerOtherThanYRejects ==
    (prompts # <<>> /\ prompts[Len(prompts)].stage = "pre" /\ last_answer # "y")
       => RejectedAtPrompt(Len(prompts))

\* C10 (amended): whenever the operator's answer to a pre-merge validation
\* prompt, lower-cased, is anything other than 'y', the group's status is
\* 'pre_validation_rejected', no further query of the group is executed and
\* the group is counted as skipped.
C10_AnswerNotLoweringToYRejects ==
    \A k \in DOMAIN prompts :
       (prompts[k].stage = "pre" /\ ~prompts[k].yes) => RejectedAtPrompt(k)

\* a pre-merge validation was turned down and the group is in the report
C10_Witness ==
    \E k \in DOMAIN prompts :
       /\ prompts[k].stage = "pre" /\ ~prompts[k].yes
       /\ Recorded(prompts[k].plan)
       /\ execution_results.skipped_groups >= 1
       /\ xpc = "done"

\* the result dict of executed plan entry i, in the report or still in progress
ResultOf(i) ==
    IF Recorded(i) THEN execution_results.group_results[ResultIdx(i)]
    ELSE group_result

\* the result list of a stage
StageResults(r, stage) ==
    CASE stage = "pre" -> r.pre_validation_results
      [] stage = "op" -> r.operation_results
      [] OTHER -> r.post_validation_results

\* sequence a is an initial part of sequence b
IsPrefix(a, b) == Len(a) <= Len(b) /\ \A k \in DOMAIN a : a[k] = b[k]

\* the group of plan entry i was halted by a failure or a rejection
Halted(i) ==
    StatusOf(i) \in {"pre_validation_failed", "pre_validation_rejected",
                     "operation_rejected", "operation_failed",
                     "post_validation_failed", "post_validation_rejected"}

\* C11: a query failure or a rejection halts only its own group: the loop
\* over the plan ends only when the plan has no further entry, every plan
\* entry with a matching group that the loop has left has its own result in
\* the report, in plan order, and each such entry was started at the first
\* step of its first stage.
C11_HaltStopsOnlyItsGroup ==
    /\ (xpc \in {"report", "done"} /\ plans # <<>>) => plan_exhausted
    /\ Len(execution_results.group_results) <=
          Cardinality({i \in 1..Len(plans) : Executed(i)})
    /\ \A i \in 1..Len(plans) :
          Executed(i) =>
             /\ (i < Len(plans) \/ xpc \in {"next_plan", "report", "done"}) =>
                   /\ Recorded(i)
                   /\ ResultOf(i).group_id = plans[i].group_id
                   /\ ResultOf(i).status # "pending"
             /\ \A k \in DOMAIN queries :
                   (queries[k].plan = i /\ \A m \in 1..(k - 1) : queries[m].plan # i) =>
                      /\ queries[k].step = 1
                      /\ plans[i].pre > 0 => queries[k].stage = "pre"

\* a later group was resolved after an earlier group had been halted
C11_Witness ==
    /\ xpc = "done"
    /\ \E i, j \in 1..Len(plans) :
          /\ i < j /\ Recorded(i) /\ Recorded(j)
          /\ Halted(i)
          /\ StatusOf(j) = "success"
          /\ QueriesOf(j, "pre") # {}

\* every executed query and every answer is on the group's result lists
C12_Recorded ==
    /\ \A k \in DOMAIN queries :
          LET q == queries[k]
              entries == StageResults(ResultOf(q.plan), q.stage)
          IN /\ Executed(q.plan)
             /\ q.step \in DOMAIN entries
             /\ entries[q.step].step = q.step
             /\ entries[q.step].success = q.success
             /\ q.stage = "op" => entries[q.step].executed
    /\ \A k \in DOMAIN prompts :
          LET a == prompts[k]
              entries == StageResults(ResultOf(a.plan), a.stage)
          IN /\ a.step \in DOMAIN entries
             /\ entries[a.step].user_approved = PyBool(a.yes)
    /\ \A k \in DOMAIN execution_results.group_results :
          execution_results.group_results[k].status # "pending"

\* one step only appends to the result lists of the group in progress and to
\* the report
C12_AppendOnly ==
    /\ IsPrefix(execution_results.group_results, execution_results'.group_results)
    /\ (Len(plans') = Len(plans)) =>
          \A stage \in {"pre", "op", "post"} :
             IsPrefix(StageResults(group_result, stage),
                      StageResults(group_result', stage))

\* C12: every executed query has an entry in its group's result lists and
\* every operator answer is recorded on the entry of its step; entries are
\* only appended; no group result in the report has status 'pending'.
C12_AuditTrail == [](C12_Recorded) /\ [][C12_AppendOnly]_vars

\* a group with a query and an answer in every stage is in the report
C12_Witness ==
    \E i \in 1..Len(plans) :
       /\ Recorded(i)
       /\ \A stage \in {"pre", "op", "post"} :
             /\ QueriesOf(i, stage) # {}
             /\ \E k \in DOMAIN prompts : prompts[k].plan = i /\ prompts[k].stage = stage

\* C13: a plan with an entry whose group_id no group has is rejected before
\* execution: no query of the plan is executed.
C13_UnknownGroupRejectsPlan ==
    (\E i \in 1..Len(plans) : ~Executed(i)) => queries = <<>>

\* C17: destructive operations need an explicit confirmation: every merge
\* operation query that was executed was approved by the operator at the
\* prompt of that operation (execute_resolution_plan takes no override flag).
C17_MergeQueryNeedsConfirmation ==
    \A k \in DOMAIN queries :
       queries[k].stage = "op"
          => Approved(queries[k].plan, "op", queries[k].step)

(***************************************************************************)
(* Claims about the duplicate type detection (SpecDetect).                 *)
(***************************************************************************)
\* the labels of the graph that equal label l ignoring case
CaseClass(l) == {m \in Range(node_labels) : lowercase(m) = lowercase(l)}

\* label l has a singular/plural counterpart among the labels of the graph
HasCounterpart(l) == \E m \in Range(node_labels) : m # l /\ IsPlural(l, m)

\* the groups of the prefilter whose members are exactly the set S
GroupsWithMembers(S) ==
    {k \in DOMAIN rule_based_duplicates :
        Range(rule_based_duplicates[k].duplicate_types) = S}

\* C18: prefilter_duplicate_entity_types returns, for every maximal set of two
\* or more labels that are equal ignoring case, exactly one group whose members
\* are exactly that set, and a label with neither a case variant nor a
\* singular/plural counterpart is in no group.
C18_CaseVariantsGroupedOnce ==
    dpc \in {"prefiltered", "analysed"} =>
       \A l \in Range(node_labels) :
          /\ Cardinality(CaseClass(l)) >= 2
                => Cardinality(GroupsWithMembers(CaseClass(l))) = 1
          /\ (Cardinality(CaseClass(l)) = 1 /\ ~HasCounterpart(l))
                => \A k \in DOMAIN rule_based_duplicates :
                      l \notin Range(rule_based_duplicates[k].duplicate_types)

\* the scenario of C18: labels Pn, pn and V (Person, person, Vehicle) gave
\* the one group {Pn, pn}
C18_Witness ==
    /\ dpc = "prefiltered"
    /\ node_labels = << <<"P", "n">>, <<"p", "n">>, <<"V">> >>
    /\ Len(rule_based_duplicates) = 1
    /\ Range(rule_based_duplicates[1].duplicate_types) = { <<"P", "n">>, <<"p", "n">> }

\* C19: no two groups of the list returned by
\* identify_potential_duplicate_entity_types have a member in common.
C19_ReturnedGroupsAreDisjoint ==
    dpc = "done" =>
       \A i, j \in DOMAIN all_duplicates :
          i # j => ~is_duplicate_group(all_duplicates[i], all_duplicates[j])

(***************************************************************************)
(* Claims about the Graph Writer (SpecWrite).                              *)
(***************************************************************************)
\* the queries build_graph issued for item i of one kind
WritesOf(kind, i) ==
    {k \in DOMAIN graph_queries :
        graph_queries[k].kind = kind /\ graph_queries[k].item = i}

\* C20: build_graph issues exactly one upsert per entity and one per
\* relationship that has a source and a target, none for a relationship with a
\* missing or empty source or target, and no failed entity or relationship
\* write stops it: it leaves early only when the wipe itself fails.
C20_OneUpsertPerItem ==
    /\ bpc = "done" =>
          /\ \A i \in DOMAIN graph_delta.entities :
                Cardinality(WritesOf("entity", i)) = 1
          /\ \A i \in DOMAIN graph_delta.relationships :
                Cardinality(WritesOf("relationship", i)) =
                   IF HasEnds(graph_delta.relationships[i]) THEN 1 ELSE 0
          /\ \A k \in DOMAIN graph_queries :
                \/ graph_queries[k].kind = "clear" /\ k = 1 /\ clear_existing
                \/ graph_queries[k].kind = "entity"
                      /\ graph_queries[k].item \in DOMAIN graph_delta.entities
                \/ graph_queries[k].kind = "relationship"
                      /\ graph_queries[k].item \in DOMAIN graph_delta.relationships
    /\ bpc = "raised" =>
          graph_queries = << [kind |-> "clear", item |-> 0, ok |-> FALSE] >>

\* the writer finished although the write of the first entity failed: the
\* second entity and a relationship were still written, and a relationship
\* without source or target was skipped
C20_Witness ==
    /\ bpc = "done"
    /\ Len(graph_delta.entities) = MaxWriteItems
    /\ \E k \in WritesOf("entity", 1) : ~graph_queries[k].ok
    /\ WritesOf("entity", 2) # {}
    /\ \E i \in DOMAIN graph_delta.relationships : WritesOf("relationship", i) # {}
    /\ \E i \in DOMAIN graph_delta.relationships :
          ~HasEnds(graph_delta.relationships[i])

(***************************************************************************)
(* Claims about the repeated Graph Writer (SpecStore).                     *)
(***************************************************************************)
\* every query of both calls of build_graph succeeded
EveryWriteSucceeded == \A k \in DOMAIN graph_queries : graph_queries[k].ok

\* C21: applying the same delta twice with clear_existing = false and every
\* write succeeding leaves the graph as applying it once did: the second call
\* creates no node and no relationship and changes no property.
C21_SecondRunChangesNothing ==
    (/\ write_run = 2 /\ bpc = "done"
     /\ ~clear_existing
     /\ EveryWriteSucceeded)
       => graph_store = store_after_first

\* a second call has ended after writing an entity and a relationship that
\* joins nodes of the graph
C21_Witness ==
    /\ write_run = 2 /\ bpc = "done"
    /\ ~clear_existing
    /\ EveryWriteSucceeded
    /\ Len(graph_delta.entities) >= 1
    /\ Len(graph_store.rels) >= 1
    /\ Len(graph_queries) = 2 * MaxWriteItems

(***************************************************************************)
(* Further claims about the planner and the workflow (SpecFlow).           *)
(***************************************************************************)
\* C24: with --dry-run no query of the resolution plan is executed, on any
\* path and whatever the operator answers.
C24_DryRunExecutesNothing ==
    flag_dry_run =>
       \A c \in DOMAIN exec_calls : QueriesRun(resolution_plan, exec_calls[c]) = {}

\* C25: in the plan returned by create_resolution_plan no two groups have the
\* same group_id.
C25_GroupIdsAreUnique ==
    wpc # "start" =>
       \A i, j \in DOMAIN resolution_plan.groups :
          i # j => resolution_plan.groups[i].group_id # resolution_plan.groups[j].group_id

(***************************************************************************)
(* ensure_items_in_resolution_plan: the backfill of the items of a plan.   *)
(***************************************************************************)
\* member lists of the duplicate groups handed to the planner
MemberLists == { <<"Person", "person">>, <<"Org", "Organisation">> }

RECURSIVE Reverse(_)
Reverse(l) == IF l = <<>> THEN <<>> ELSE Reverse(Tail(l)) \o <<Head(l)>>

\* a DuplicateGroup: entity-type groups carry duplicate_types, entity groups
\* carry duplicate_ids
DuplicateGroup(members, dtype) ==
    [duplicate_types |-> IF dtype = "entity_type" THEN List(members) ELSE Missing,
     duplicate_ids   |-> IF dtype = "entity" THEN List(members) ELSE Missing]

\* the lists of distinct duplicate groups supplied by the caller
DuplicateGroupLists(dtype) ==
    { <<DuplicateGroup(m, dtype)>> : m \in MemberLists }
      \cup { <<DuplicateGroup(pair[1], dtype), DuplicateGroup(pair[2], dtype)>> :
               pair \in { q \in MemberLists \X MemberLists : q[1] # q[2] } }

\* The groups an LLM may write for the duplicate group with the given
\* members.  The schema of the prompt asks for group_id, group_summary, items,
\* merge_target and impact_assessment; the model may leave items out or
\* empty, and may or may not copy the member list under the name the
\* duplicate group uses, or under "types".
PlanGroupsFor(members, dtype) ==
    LET copies == {Missing, List(members), List(Reverse(members))} IN
    { [items |-> it,
       duplicate_types |-> IF dtype = "entity_type" THEN cp ELSE Missing,
       duplicate_ids   |-> IF dtype = "entity" THEN cp ELSE Missing,
       types |-> ty,
       entities |-> Missing] :
         it \in {Missing, List(<<>>), List(members), List(Reverse(members))},
         cp \in copies,
         ty \in {Missing, List(members)} }

\* the plans generated from a list of duplicate groups: group k of the plan
\* was written for duplicate group k
PlansFor(dups, dtype) ==
    LET field == IF dtype = "entity_type" THEN "duplicate_types" ELSE "duplicate_ids" IN
    { pl \in [DOMAIN dups -> UNION { PlanGroupsFor(m, dtype) : m \in MemberLists }] :
        \A k \in DOMAIN dups : pl[k] \in PlanGroupsFor(dups[k][field].items, dtype) }

\* not group.get(field): the key is missing or the list is empty
Falsy(v) == Get(v).items = <<>>

\* for dup_group in duplicate_groups: if set(dup_group.get(field, [])) ==
\* set(group.get(field, [])): group["items"] = dup_group.get(field, []); break
RECURSIVE MatchDupGroup(_, _, _)
MatchDupGroup(group, dups, field) ==
    IF dups = <<>> THEN group
    ELSE IF Range(Get(Head(dups)[field]).items) = Range(Get(group[field]).items)
         THEN [group EXCEPT !.items = Get(Head(dups)[field])]
         ELSE MatchDupGroup(group, Tail(dups), field)

\* for field in ["duplicate_types", "types", "entities"]: if group.get(field):
\* group["items"] = group.get(field); break
RECURSIVE FirstOwnField(_, _)
FirstOwnField(group, fields) ==
    IF fields = <<>> THEN group
    ELSE IF ~Falsy(group[Head(fields)])
         THEN [group EXCEPT !.items = group[Head(fields)]]
         ELSE FirstOwnField(group, Tail(fields))

\* the body of the loop over resolution_plan["groups"]
EnsureGroupItems(group, dups, dtype) ==
    IF ~Falsy(group.items) THEN group
    ELSE IF dtype = "entity_type"
         THEN LET matched == MatchDupGroup(group, dups, "duplicate_types") IN
              IF Falsy(matched.items)
              THEN FirstOwnField(matched, <<"duplicate_types", "types", "entities">>)
              ELSE matched
    ELSE IF dtype = "entity"
         THEN MatchDupGroup(group, dups, "duplicate_ids")
    ELSE group

ensure_items_in_resolution_plan(plan, dups, dtype) ==
    [k \in DOMAIN plan |-> EnsureGroupItems(plan[k], dups, dtype)]

InitItems ==
    /\ ipc = "start"
    /\ duplicate_type \in {"entity_type", "entity"}
    /\ duplicate_groups \in DuplicateGroupLists(duplicate_type)
    /\ plan_before \in PlansFor(duplicate_groups, duplicate_type)
    /\ plan_after = <<>>
    /\ MergeIdle
    /\ ChunkIdle
    /\ ExecIdle
    /\ PipeIdle
    /\ FlowIdle
    /\ DetectIdle
    /\ WriteIdle
    /\ PoolIdle

EnsureItems ==
    /\ ipc = "start"
    /\ plan_after' = ensure_items_in_resolution_plan(plan_before, duplicate_groups,
                                                     duplicate_type)
    /\ ipc' = "done"
    /\ UNCHANGED <<duplicate_groups, duplicate_type, plan_before>>
    /\ UNCHANGED notItemsVars

NextItems == EnsureItems

SpecItems == InitItems /\ [][NextItems]_vars

\* the member list of the duplicate group that group k of the plan was
\* written for
MembersOf(k) ==
    IF duplicate_type = "entity_type" THEN duplicate_groups[k].duplicate_types
    ELSE duplicate_groups[k].duplicate_ids

\* C26: after ensure_items_in_resolution_plan every group whose items were
\* missing or empty has the member list of its duplicate group as items, and
\* every group that had items keeps them.
C26_ItemsBackfilled ==
    ipc = "done" =>
       \A k \in DOMAIN plan_before :
          IF Falsy(plan_before[k].items)
          THEN plan_after[k].items = MembersOf(k)
          ELSE plan_after[k] = plan_before[k]

(***************************************************************************)
(* A further claim about execute_resolution_plan (SpecExec).               *)
(***************************************************************************)
\* the statuses of a group that a failed query or a rejection has ended
FailedOrRejected ==
    {"pre_validation_failed", "pre_validation_rejected", "operation_failed",
     "operation_rejected", "post_validation_failed", "post_validation_rejected"}

\* C29: in the report the counters account for every executed group exactly
\* once: successful_groups + failed_groups + skipped_groups is the number of
\* entries of group_results, successful_groups is the number of entries with
\* status 'success', and True is returned only if no executed group ended in
\* a failed or rejected status.
C29_CountersAccountForGroups ==
    LET report == execution_results
        with(S) == {i \in DOMAIN report.group_results :
                       report.group_results[i].status \in S}
    IN /\ report.successful_groups + report.failed_groups + report.skipped_groups
             = Len(report.group_results)
       /\ report.successful_groups = Cardinality(with({"success"}))
       /\ ret = "True" => with(FailedOrRejected) = {}

(***************************************************************************)
(* The LLM invocations of the worker pool.  Each pool thread runs          *)
(* process_chunk for one chunk at a time; every attempt hands chain.invoke *)
(* to a new single-thread executor and waits for it with a timeout.        *)
(***************************************************************************)
\* process_chunk(chunk, chunk_index, total_chunks, max_retries=3)
DefaultMaxRetries == 3

\* a pool thread without a task
IdleThread == [pc |-> "idle", attempt |-> 0, retry_count |-> 0]

\* the thread starts attempt number a of the extraction call of retry r
Attempting(r, a) == [pc |-> "attempt", attempt |-> a, retry_count |-> r]

\* extract_entities_relationships returned the empty result, or process_chunk
\* found nothing in the data: retry_count += 1, and None is returned once
\* retry_count > max_retries
NothingFound(t) ==
    IF t.retry_count + 1 > DefaultMaxRetries THEN IdleThread
    ELSE Attempting(t.retry_count + 1, 0)

\* an attempt ended without data (timeout, or text that is not JSON):
\* 'continue' unless it was the last attempt, which returns the empty result
AttemptFailed(t) ==
    IF t.attempt = ChunkMaxAttempts - 1 THEN NothingFound(t)
    ELSE Attempting(t.retry_count, t.attempt + 1)

\* chain.invoke calls that have been started and have not returned
Outstanding ==
    Cardinality({w \in DOMAIN pool_threads : pool_threads[w].pc = "awaiting"})
       + abandoned

InitPool ==
    /\ pool_workers \in 1..MaxWorkers
    /\ pool_queue \in 1..MaxChunks
    /\ pool_threads = [w \in 1..pool_workers |-> IdleThread]
    /\ abandoned = 0
    /\ MergeIdle
    /\ ChunkIdle
    /\ ExecIdle
    /\ PipeIdle
    /\ FlowIdle
    /\ DetectIdle
    /\ WriteIdle
    /\ ItemsIdle

\* a free thread of the pool takes the next submitted chunk
PoolTake(w) ==
    /\ pool_threads[w].pc = "idle"
    /\ pool_queue > 0
    /\ pool_queue' = pool_queue - 1
    /\ pool_threads' = [pool_threads EXCEPT ![w] = Attempting(0, 0)]
    /\ UNCHANGED <<pool_workers, abandoned>>
    /\ UNCHANGED notPoolVars

\* ThreadPoolExecutor(max_workers=1).submit(chain.invoke, ...): the call
\* starts at once in a thread of its own
LlmInvoke(w) ==
    /\ pool_threads[w].pc = "attempt"
    /\ pool_threads' = [pool_threads EXCEPT ![w].pc = "awaiting"]
    /\ UNCHANGED <<pool_workers, pool_queue, abandoned>>
    /\ UNCHANGED notPoolVars

\* result_future.result(...) returns the text in time
LlmReturn(w) ==
    /\ pool_threads[w].pc = "awaiting"
    /\ \E text \in {"data", "empty", "invalid"} :
          pool_threads' =
             [pool_threads EXCEPT ![w] =
                 IF text = "data" THEN IdleThread
                 ELSE IF text = "empty" THEN NothingFound(@)
                 ELSE AttemptFailed(@)]
    /\ UNCHANGED <<pool_workers, pool_queue, abandoned>>
    /\ UNCHANGED notPoolVars

\* result_future.result(timeout=...) raises TimeoutError; cancel() of a
\* future that is running returns False and the call goes on
LlmTimeout(w) ==
    /\ pool_threads[w].pc = "awaiting"
    /\ abandoned' = abandoned + 1
    /\ pool_threads' = [pool_threads EXCEPT ![w] = AttemptFailed(@)]
    /\ UNCHANGED <<pool_workers, pool_queue>>
    /\ UNCHANGED notPoolVars

\* a call that nobody waits for any more comes back
AbandonedReturn ==
    /\ abandoned > 0
    /\ abandoned' = abandoned - 1
    /\ UNCHANGED <<pool_workers, pool_queue, pool_threads>>
    /\ UNCHANGED notPoolVars

NextPool ==
    \/ \E w \in DOMAIN pool_threads :
          \/ PoolTake(w)
          \/ LlmInvoke(w)
          \/ LlmReturn(w)
          \/ LlmTimeout(w)
    \/ AbandonedReturn

SpecPool == InitPool /\ [][NextPool]_vars

\* C30: at any moment at most max_workers LLM invocations are outstanding,
\* also after per-attempt timeouts and retries.
C30_OutstandingWithinWorkers == Outstanding <= pool_workers

====
